---- MODULE Spec2Model ----
(***************************************************************************)
(* DocuMind-AI backend: the ingestion job pipeline, the job repository     *)
(* and the token-aware text chunker.                                       *)
(*                                                                         *)
(* Text is a sequence of one-character strings; a file is the join of its  *)
(* lines with "\n".  Line indices follow the source: 0-based cursors in    *)
(* the chunker, 1-based start_line/end_line in the emitted chunks.         *)
(***************************************************************************)
EXTENDS Integers, Sequences, FiniteSets, TLC

(***************************************************************************)
(* Bounds of the model                                                     *)
(***************************************************************************)
MaxLines == 5
MaxTokensArg == 3
MaxOverlapArg == 2
MaxRepoCalls == 3
MaxCalls == 2
MaxUnits == 3
MantissaBits == 3
MaxSpan == 90

(* settings.MAX_CHUNK_TOKENS / settings.CHUNK_OVERLAP_LINES defaults *)
MAX_CHUNK_TOKENS == 800
CHUNK_OVERLAP_LINES == 2

(***************************************************************************)
(* str helpers                                                             *)
(***************************************************************************)
NL == "\n"

RECURSIVE Pow2(_)
Pow2(k) == IF k = 0 THEN 1 ELSE 2 * Pow2(k - 1)

Max(a, b) == IF a >= b THEN a ELSE b

IsSpace(c) == c \in {" ", "\n", "\t"}

(* str.lstrip() *)
RECURSIVE LStrip(_)
LStrip(s) ==
    IF s = <<>> THEN <<>>
    ELSE IF IsSpace(Head(s)) THEN LStrip(Tail(s)) ELSE s

(* str.rstrip() *)
RECURSIVE RStrip(_)
RStrip(s) ==
    IF s = <<>> THEN <<>>
    ELSE IF IsSpace(s[Len(s)]) THEN RStrip(SubSeq(s, 1, Len(s) - 1)) ELSE s

(* str.strip() *)
Strip(s) == RStrip(LStrip(s))

(* str.startswith(p) *)
StartsWith(s, p) == Len(s) >= Len(p) /\ SubSeq(s, 1, Len(p)) = p

(* str.endswith('\n') *)
EndsWithNL(s) == s # <<>> /\ s[Len(s)] = NL

(* len(text.split()): the number of maximal runs of non-whitespace *)
WordCount(s) ==
    Cardinality({i \in 1..Len(s) :
        ~IsSpace(s[i]) /\ (i = 1 \/ IsSpace(s[i - 1]))})

(* text.split('\n') *)
RECURSIVE SplitFrom(_, _, _)
SplitFrom(s, i, cur) ==
    IF i > Len(s) THEN <<cur>>
    ELSE IF s[i] = NL THEN <<cur>> \o SplitFrom(s, i + 1, <<>>)
    ELSE SplitFrom(s, i + 1, Append(cur, s[i]))

SplitLines(s) == SplitFrom(s, 1, <<>>)

(* '\n'.join(lines) *)
RECURSIVE JoinLines(_)
JoinLines(ls) ==
    IF ls = <<>> THEN <<>>
    ELSE IF Len(ls) = 1 THEN ls[1]
    ELSE ls[1] \o <<NL>> \o JoinLines(Tail(ls))

(***************************************************************************)
(* parser.count_tokens_approximate:                                        *)
(*   int((len(text)/4 + len(text.split())*1.3) / 2)                        *)
(*   = floor((5*chars + 26*words) / 40)                                    *)
(***************************************************************************)
count_tokens_approximate(text) ==
    IF text = <<>> THEN 0
    ELSE (5 * Len(text) + 26 * WordCount(text)) \div 40

(***************************************************************************)
(* State                                                                   *)
(***************************************************************************)
VARIABLES
    content,        \* chunker: ParsedFile.content handed to chunk_file
    max_tokens,     \* chunker: TextChunker.max_tokens
    overlap_lines,  \* chunker: TextChunker.overlap_lines
    cpc,            \* chunker: position in chunk_file
    lines,          \* chunker: content.split('\n')
    current_start,  \* chunker: the line cursor (0-based)
    chunks,         \* chunker: the list of chunks built so far
    jobs,           \* the jobs collection: job_id -> Job document
    chunksDb,       \* the code_chunks collection: a set of CodeChunk documents
    pc,             \* per job: position of its run_ingestion_pipeline task
    loc,            \* per job: the locals of run_ingestion_pipeline
    now,            \* datetime.utcnow(), a logical clock
    events,         \* per job: the collaborator failures its pipeline has met
    last_op,        \* the last JobRepository call made through the repository API
    returned,       \* chunker: what the earlier chunk_file calls on this chunker returned
    embeddings,     \* the embeddings collection, in natural (insertion) order
    upserted,       \* per chunk_id: the document of the last upsert applied to it
    call            \* the last VectorStore / retrieval call: its arguments and outcome

chunkVars == <<content, max_tokens, overlap_lines, cpc, lines, current_start, chunks>>

pipeVars == <<jobs, chunksDb, pc, loc, now, events, last_op>>

callVars == <<returned>>

vecVars == <<embeddings, upserted, call>>

vars == <<content, max_tokens, overlap_lines, cpc, lines, current_start, chunks,
          jobs, chunksDb, pc, loc, now, events, last_op, returned,
          embeddings, upserted, call>>

(* no VectorStore or retrieval call made yet *)
NoCall == [op |-> "none"]

(***************************************************************************)
(* Input texts: every file of 1..MaxLines lines over a small vocabulary.   *)
(* A last line "" is a file ending in a newline; the single line "" is the *)
(* empty file.                                                             *)
(***************************************************************************)
LineVocab ==
    { <<>>,
      <<"}">>,
      <<"d", "e", "f", " ", "f">>,
      <<"x", " ", "=", " ", "1", " ", "+", " ", "2">> }

InputLines == UNION { [1..n -> LineVocab] : n \in 1..MaxLines }

(***************************************************************************)
(* chunker.TextChunker                                                     *)
(***************************************************************************)
break_patterns ==
    { <<>>, <<"}">>, <<"}", ";">>, <<"]">>, <<")">> }

start_patterns ==
    { <<"d", "e", "f", " ">>,
      <<"c", "l", "a", "s", "s", " ">>,
      <<"f", "u", "n", "c", "t", "i", "o", "n", " ">>,
      <<"a", "s", "y", "n", "c", " ", "d", "e", "f", " ">>,
      <<"a", "s", "y", "n", "c", " ", "f", "u", "n", "c", "t", "i", "o", "n", " ">>,
      <<"e", "x", "p", "o", "r", "t", " ">>,
      <<"i", "m", "p", "o", "r", "t", " ">>,
      <<"f", "r", "o", "m", " ">>,
      <<"#", " ">>,
      <<"/", "/">>,
      <<"/", "*">>,
      <<"\"", "\"", "\"">>,
      <<"'", "'", "'">> }

(* the backward scan of _find_logical_break, i a 0-based line index; the   *)
(* start-pattern branch only leaves the inner loop, so the scan goes on    *)
RECURSIVE ScanBreak(_, _, _, _)
ScanBreak(ls, i, min_end, best_break) ==
    IF i < min_end THEN best_break
    ELSE LET line == Strip(ls[i + 1]) IN
         IF line = <<>> THEN i + 1
         ELSE IF line \in break_patterns THEN i + 1
         ELSE IF i + 1 < Len(ls)
                 /\ \E p \in start_patterns : StartsWith(LStrip(ls[i + 2]), p)
              THEN ScanBreak(ls, i - 1, min_end, i + 1)
              ELSE ScanBreak(ls, i - 1, min_end, best_break)

(* int(n * 0.7) in double precision.  The double 0.7 is 0.4 * 2^-53 below  *)
(* 7/10, so the exact product is just below 7n/10; when 7n/10 is a whole   *)
(* number K the product rounds up to K unless K lies in the upper eighth   *)
(* of its binade (7 * 2^e < 4K, 2^e < K <= 2^(e+1)), where it rounds to    *)
(* the double below K and int() gives K - 1: int(90 * 0.7) = 62            *)
IntOfTimes07(n) ==
    LET K == (7 * n) \div 10
        e == CHOOSE x \in 0..20 : Pow2(x) < K /\ K <= Pow2(x + 1)
    IN IF n % 10 = 0 /\ K > 1 /\ 4 * K > 7 * Pow2(e) THEN K - 1 ELSE K

(* a scan that may go back over half of the range *)
MinEndHalf(start, end) == start + (end - start) \div 2

(* min_end = start + int((end - start) * 0.7) *)
MinEnd(start, end) == start + IntOfTimes07(end - start)

_find_logical_break(ls, start, end) ==
    ScanBreak(ls, end - 1, MinEnd(start, end), end)

(* an accumulation loop without the "at least one line" floor *)
AccumulatedEndNoFloor(ls, start, total_lines, budget) ==
    LET over == { i \in start..(total_lines - 1) :
                    count_tokens_approximate(JoinLines(SubSeq(ls, start + 1, i + 1))) > budget }
    IN IF over = {} THEN total_lines
       ELSE CHOOSE k \in over : \A m \in over : k <= m

(* the accumulation loop of _find_chunk_end: the first 0-based i at which  *)
(* lines[start..i] joined exceed the budget gives max(i, start + 1)        *)
AccumulatedEnd(ls, start, total_lines, budget) ==
    LET over == { i \in start..(total_lines - 1) :
                    count_tokens_approximate(JoinLines(SubSeq(ls, start + 1, i + 1))) > budget }
    IN IF over = {} THEN total_lines
       ELSE LET i == CHOOSE k \in over : \A m \in over : k <= m
            IN Max(i, start + 1)

_find_chunk_end(ls, start, total_lines, budget) ==
    LET current_end == AccumulatedEnd(ls, start, total_lines, budget) IN
    IF current_end > start + 1
    THEN LET better_end == _find_logical_break(ls, start, current_end)
         IN IF better_end > start THEN better_end ELSE current_end
    ELSE current_end

(* the cursor moved one line past the end of the chunk *)
NextStartSkipsLine(chunk_end, overlap) == Max(chunk_end - overlap, chunk_end) + 1

(* lines 141-144: max(chunk_end - overlap_lines, chunk_end) *)
NextStart(chunk_end, overlap) == Max(chunk_end - overlap, chunk_end)

(* a chunk that always reports line 1 as its first line *)
MakeChunkAtLineOne(ls, start, chunk_end) ==
    LET joined == JoinLines(SubSeq(ls, start + 1, chunk_end))
        chunk_content == IF joined # <<>> /\ ~EndsWithNL(joined)
                         THEN Append(joined, NL) ELSE joined
    IN [start_line |-> 1,
        end_line |-> chunk_end,
        content |-> chunk_content,
        token_count |-> count_tokens_approximate(chunk_content)]

(* lines 116-137: the chunk for lines[current_start:chunk_end] *)
MakeChunk(ls, start, chunk_end) ==
    LET joined == JoinLines(SubSeq(ls, start + 1, chunk_end))
        chunk_content == IF joined # <<>> /\ ~EndsWithNL(joined)
                         THEN Append(joined, NL) ELSE joined
    IN [start_line |-> start + 1,
        end_line |-> chunk_end,
        content |-> chunk_content,
        token_count |-> count_tokens_approximate(chunk_content)]

(* a single chunk whose end_line counts the newlines, not the lines *)
WholeFileChunkShort(text) ==
    [start_line |-> 1,
     end_line |-> Len(SplitLines(text)) - 1,
     content |-> text,
     token_count |-> count_tokens_approximate(text)]

(* lines 92-101: the one chunk of a file that fits the budget *)
WholeFileChunk(text) ==
    [start_line |-> 1,
     end_line |-> Len(SplitLines(text)),
     content |-> text,
     token_count |-> count_tokens_approximate(text)]

(* lines 82-84: `not content or not content.strip()` *)
IsBlankContent(text) == text = <<>> \/ Strip(text) = <<>>

(* the while loop of chunk_file run to its end from cursor `start` *)
RECURSIVE ChunkFrom(_, _, _, _)
ChunkFrom(ls, start, budget, overlap) ==
    LET chunk_end == _find_chunk_end(ls, start, Len(ls), budget)
        next == NextStart(chunk_end, overlap)
    IN <<MakeChunk(ls, start, chunk_end)>>
       \o (IF next >= Len(ls) THEN <<>> ELSE ChunkFrom(ls, next, budget, overlap))

(* chunk_file as a function of (content, max_tokens, overlap_lines) *)
chunk_file(text, budget, overlap) ==
    IF IsBlankContent(text) THEN <<>>
    ELSE IF count_tokens_approximate(text) <= budget THEN <<WholeFileChunk(text)>>
    ELSE ChunkFrom(SplitLines(text), 0, budget, overlap)

(***************************************************************************)
(* database.models: Job, JobStatus, JobTimestamps, JobStats                *)
(***************************************************************************)
JobIds == {"j1"}

RepoUrls == {"https://github.com/o/r"}

PENDING == "pending"
CLONING == "cloning"
SCANNING == "scanning"
PARSING == "parsing"
CHUNKING == "chunking"
STORING == "storing"
COMPLETED == "completed"
FAILED == "failed"

JobStatus == {PENDING, CLONING, SCANNING, PARSING, CHUNKING, STORING, COMPLETED, FAILED}

TerminalStatus == {COMPLETED, FAILED}

(* the statuses ingest_repository treats as "in progress", lines 83-84 *)
InProgressStatus == {PENDING, CLONING, SCANNING, PARSING, CHUNKING, STORING}

TimestampFields ==
    {"created_at", "started_at",
     "cloning_started_at", "cloning_completed_at",
     "scanning_started_at", "scanning_completed_at",
     "parsing_started_at", "parsing_completed_at",
     "chunking_started_at", "chunking_completed_at",
     "storing_started_at", "storing_completed_at",
     "completed_at", "failed_at"}

Languages == {"python", "javascript", "markdown"}

(* JobStats(): every counter 0, files_by_language empty (count 0 = no key) *)
NewJobStats ==
    [total_files |-> 0, processed_files |-> 0, total_chunks |-> 0,
     total_lines |-> 0, files_by_language |-> [l \in Languages |-> 0]]

(* Optional fields: None is <<>> for error_message, 0 for a timestamp *)
NoMessage == <<>>

(* the Job built by ingest_repository, lines 95-103 *)
NewJob(url, t) ==
    [repo_url |-> url,
     local_path |-> "",
     status |-> PENDING,
     error_message |-> NoMessage,
     timestamps |-> [f \in TimestampFields |-> IF f = "created_at" THEN t ELSE 0],
     stats |-> NewJobStats]

(***************************************************************************)
(* database.repositories.JobRepository: the update each call applies to    *)
(* the matched document (update_one is a no-op when no document matches)   *)
(***************************************************************************)
_get_timestamp_field(status) ==
    CASE status = PENDING -> "created_at"
      [] status = CLONING -> "cloning_started_at"
      [] status = SCANNING -> "scanning_started_at"
      [] status = PARSING -> "parsing_started_at"
      [] status = CHUNKING -> "chunking_started_at"
      [] status = STORING -> "storing_started_at"
      [] status = COMPLETED -> "completed_at"
      [] status = FAILED -> "failed_at"

update_job_status(job, status, error_message, t) ==
    [job EXCEPT !.status = status,
                !.timestamps[_get_timestamp_field(status)] = t,
                !.error_message = IF error_message # NoMessage THEN error_message ELSE @]

update_job_stats(job, stats) == [job EXCEPT !.stats = stats]

update_job_local_path(job, local_path, t) ==
    [job EXCEPT !.local_path = local_path,
                !.timestamps["cloning_completed_at"] = t]

set_phase_complete(job, phase, t) ==
    [job EXCEPT !.timestamps[phase \o "_completed_at"] = t]

(* collection.update_one({"job_id": j}, ...) *)
UpdateOne(j, doc) == IF j \in DOMAIN jobs THEN [jobs EXCEPT ![j] = doc] ELSE jobs

(* list_jobs(limit): the `limit` most recently created jobs *)
list_jobs(limit) ==
    { j \in DOMAIN jobs :
        Cardinality({k \in DOMAIN jobs :
            jobs[k].timestamps["created_at"] > jobs[j].timestamps["created_at"]}) < limit }

(* ingest_repository line 80: list_jobs(limit=100) *)
DUPLICATE_SCAN_LIMIT == 100

(***************************************************************************)
(* The repository a job clones: its files, in os.walk order                *)
(***************************************************************************)
RepoFiles == <<"a.py", "b.js", "c.md">>

FileText(f) ==
    CASE f = "a.py" -> JoinLines(<< <<"d", "e", "f", " ", "f">>,
                                    <<"x", " ", "=", " ", "1", " ", "+", " ", "2">>,
                                    <<>> >>)
      [] f = "b.js" -> JoinLines(<< <<"}">>, <<>> >>)
      [] f = "c.md" -> JoinLines(<< <<>>, <<>> >>)

(* file_walker.get_language_from_extension *)
get_language_from_extension(f) ==
    CASE f = "a.py" -> "python"
      [] f = "b.js" -> "javascript"
      [] f = "c.md" -> "markdown"

(* every catalog get_all_files can return: a sub-list of the files *)
IsSubList(fs) ==
    \A i \in 1..Len(fs) : \A k \in 1..Len(fs) :
        i < k => \E a \in 1..Len(RepoFiles) : \E b \in 1..Len(RepoFiles) :
                    a < b /\ RepoFiles[a] = fs[i] /\ RepoFiles[b] = fs[k]

Catalogs ==
    { fs \in UNION { [1..n -> {RepoFiles[i] : i \in 1..Len(RepoFiles)}] : n \in 0..Len(RepoFiles) } :
        IsSubList(fs) }

(* ParsedFile.total_lines = content.count('\n') + 1 if content else 0 *)
total_lines_of(text) ==
    IF text = <<>> THEN 0
    ELSE Cardinality({i \in 1..Len(text) : text[i] = NL}) + 1

(* the Chunk / CodeChunk document of one chunk of file f of job j *)
CodeChunk(j, f, c) ==
    [job_id |-> j, file_path |-> f, language |-> get_language_from_extension(f),
     start_line |-> c.start_line, end_line |-> c.end_line,
     content |-> c.content, token_count |-> c.token_count,
     line_count |-> c.end_line - c.start_line + 1]

(* chunker.chunk_file(parsed_file, job_id) on file f *)
FileChunks(j, f) ==
    LET cs == chunk_file(FileText(f), max_tokens, overlap_lines)
    IN [i \in 1..Len(cs) |-> CodeChunk(j, f, cs[i])]

RECURSIVE SeqToSet(_)
SeqToSet(sq) == IF sq = <<>> THEN {} ELSE {Head(sq)} \cup SeqToSet(Tail(sq))

(***************************************************************************)
(* Error texts                                                             *)
(***************************************************************************)
GitClientErrors ==
    { "Repository not found", "Git clone timed out after 5 minutes" }

GIT_NOT_INSTALLED == "Git is not installed"

NO_FILES_MESSAGE == "No supported files found in repository"

SCAN_ERROR == "OSError: walk failed"

DB_ERROR == "ConnectionFailure: jobs collection"

STORE_ERROR == "ConnectionFailure: chunks collection"

NoException == [kind |-> "none", text |-> NoMessage]

(* raise IngestionError(f"Failed to clone repository: {e}"), line 307 *)
CloneIngestionError(e) ==
    [kind |-> "ingestion", text |-> <<"Failed to clone repository: ", e>>]

(* raise IngestionError("No supported files found ..."), lines 320-323 *)
NoFilesIngestionError == [kind |-> "ingestion", text |-> <<NO_FILES_MESSAGE>>]

(* any other exception e reaching `except Exception`, str(e) = cause *)
UnexpectedError(cause) == [kind |-> "unexpected", text |-> <<cause>>]

(* a handler that drops the text of an unexpected exception *)
HandlerMessageGeneric(exc) ==
    IF exc.kind = "ingestion" THEN exc.text
    ELSE <<"Unexpected error: ">>

(* the error_message the handlers persist, lines 410 and 415-419 *)
HandlerMessage(exc) ==
    IF exc.kind = "ingestion" THEN exc.text
    ELSE <<"Unexpected error: ">> \o exc.text

(***************************************************************************)
(* run_ingestion_pipeline: locals and positions                            *)
(***************************************************************************)
NewLocals ==
    [local_path |-> "",
     stats |-> NewJobStats,
     files |-> <<>>,
     idx |-> 1,
     all_chunks |-> <<>>,
     skipped |-> {},
     exc |-> NoException]

(* a copy-and-paste slip: the CHUNKING and STORING calls swapped *)
PhaseStatusSwapped(p) ==
    CASE p = "set_cloning" -> CLONING
      [] p = "set_scanning" -> SCANNING
      [] p = "set_parsing" -> PARSING
      [] p = "set_chunking" -> STORING
      [] p = "set_storing" -> CHUNKING
      [] p = "set_completed" -> COMPLETED

(* the status each update_job_status call of the try block writes *)
PhaseStatus(p) ==
    CASE p = "set_cloning" -> CLONING
      [] p = "set_scanning" -> SCANNING
      [] p = "set_parsing" -> PARSING
      [] p = "set_chunking" -> CHUNKING
      [] p = "set_storing" -> STORING
      [] p = "set_completed" -> COMPLETED

(* the statement that follows each repository call of the try block *)
AfterWrite(p) ==
    CASE p = "set_cloning" -> "clone"
      [] p = "set_local_path" -> "set_scanning"
      [] p = "set_scanning" -> "scan"
      [] p = "scanning_complete" -> "set_parsing"
      [] p = "set_parsing" -> "parse"
      [] p = "parsing_complete" -> "set_chunking"
      [] p = "set_chunking" -> "chunking_complete"
      [] p = "chunking_complete" -> "set_storing"
      [] p = "set_storing" -> "store"
      [] p = "storing_complete" -> "final_stats"
      [] p = "final_stats" -> "set_completed"
      [] p = "set_completed" -> "done"

(* the phase each set_phase_complete call names *)
PhaseName(p) ==
    CASE p = "scanning_complete" -> "scanning"
      [] p = "parsing_complete" -> "parsing"
      [] p = "chunking_complete" -> "chunking"
      [] p = "storing_complete" -> "storing"

(* an exception raised inside the try block: control enters a handler *)
Raise(j, exc, event) ==
    /\ loc' = [loc EXCEPT ![j].exc = exc]
    /\ pc' = [pc EXCEPT ![j] = "handler_stats"]
    /\ events' = [events EXCEPT ![j] = @ \cup {event}]

(* TextChunker.__init__: `arg or settings.X` *)
OrDefault(arg, default) == IF arg = 0 THEN default ELSE arg

ChunkInit ==
    /\ \E ls \in InputLines : content = JoinLines(ls)
    /\ \E mt \in 0..MaxTokensArg : max_tokens = OrDefault(mt, MAX_CHUNK_TOKENS)
    /\ \E ov \in 0..MaxOverlapArg : overlap_lines = OrDefault(ov, CHUNK_OVERLAP_LINES)
    /\ cpc = "start"
    /\ lines = <<>>
    /\ current_start = 0
    /\ chunks = <<>>
    /\ jobs = <<>>
    /\ chunksDb = {}
    /\ pc = [j \in JobIds |-> "idle"]
    /\ loc = [j \in JobIds |-> NewLocals]
    /\ now = 1
    /\ events = [j \in JobIds |-> {}]
    /\ last_op = <<>>
    /\ returned = <<>>
    /\ embeddings = <<>>
    /\ upserted = <<>>
    /\ call = NoCall

(* chunk_file, lines 82-84: empty or whitespace-only content *)
ChunkFileEmpty ==
    /\ cpc = "start"
    /\ IsBlankContent(content)
    /\ chunks' = <<>>
    /\ cpc' = "done"
    /\ UNCHANGED <<content, max_tokens, overlap_lines, lines, current_start>>

(* chunk_file, lines 86-102: the whole file fits the budget *)
ChunkFileSingle ==
    /\ cpc = "start"
    /\ ~IsBlankContent(content)
    /\ count_tokens_approximate(content) <= max_tokens
    /\ lines' = SplitLines(content)
    /\ chunks' = <<WholeFileChunk(content)>>
    /\ cpc' = "done"
    /\ UNCHANGED <<content, max_tokens, overlap_lines, current_start>>

(* the splitting loop entered with a chunk list kept on the chunker, never *)
(* emptied between calls                                                   *)
ChunkFileSplitKeepsChunks ==
    /\ cpc = "start"
    /\ ~IsBlankContent(content)
    /\ count_tokens_approximate(content) > max_tokens
    /\ lines' = SplitLines(content)
    /\ current_start' = 0
    /\ chunks' = chunks
    /\ cpc' = "loop"
    /\ UNCHANGED <<content, max_tokens, overlap_lines>>

(* chunk_file, lines 104-106: enter the splitting loop *)
ChunkFileSplit ==
    /\ cpc = "start"
    /\ ~IsBlankContent(content)
    /\ count_tokens_approximate(content) > max_tokens
    /\ lines' = SplitLines(content)
    /\ current_start' = 0
    /\ chunks' = <<>>
    /\ cpc' = "loop"
    /\ UNCHANGED <<content, max_tokens, overlap_lines>>

(* chunk_file, lines 108-150: one iteration of the while loop *)
ChunkLoop ==
    /\ cpc = "loop"
    /\ current_start < Len(lines)
    /\ LET total_lines == Len(lines)
           chunk_end == _find_chunk_end(lines, current_start, total_lines, max_tokens)
           next == NextStart(chunk_end, overlap_lines)
       IN /\ chunks' = Append(chunks, MakeChunk(lines, current_start, chunk_end))
          /\ current_start' = next
          /\ cpc' = IF next >= total_lines THEN "done" ELSE "loop"
    /\ UNCHANGED <<content, max_tokens, overlap_lines, lines>>

ChunkNext ==
    \/ ChunkFileEmpty /\ UNCHANGED <<pipeVars, callVars, vecVars>>
    \/ ChunkFileSingle /\ UNCHANGED <<pipeVars, callVars, vecVars>>
    \/ ChunkFileSplit /\ UNCHANGED <<pipeVars, callVars, vecVars>>
    \/ ChunkLoop /\ UNCHANGED <<pipeVars, callVars, vecVars>>

SpecChunk == ChunkInit /\ [][ChunkNext]_vars

(***************************************************************************)
(* One TextChunker called again and again, as run_ingestion_pipeline calls *)
(* it for every file of the catalog: a call starts when the previous one   *)
(* has returned, and `returned` keeps what the earlier calls returned.     *)
(* The locals of chunk_file (lines, current_start, chunks) keep whatever   *)
(* the previous call left until the new call assigns them.                 *)
(***************************************************************************)
ReplayLines == { ls \in InputLines : Len(ls) <= MaxLines - 2 }

(* the text of the first call on this chunker *)
FirstContent == IF returned = <<>> THEN content ELSE returned[1].content

RechunkInit ==
    /\ \E ls \in ReplayLines : content = JoinLines(ls)
    /\ \E mt \in 0..MaxTokensArg : max_tokens = OrDefault(mt, MAX_CHUNK_TOKENS)
    /\ \E ov \in 0..MaxOverlapArg : overlap_lines = OrDefault(ov, CHUNK_OVERLAP_LINES)
    /\ cpc = "start"
    /\ lines = <<>>
    /\ current_start = 0
    /\ chunks = <<>>
    /\ jobs = <<>>
    /\ chunksDb = {}
    /\ pc = [j \in JobIds |-> "idle"]
    /\ loc = [j \in JobIds |-> NewLocals]
    /\ now = 1
    /\ events = [j \in JobIds |-> {}]
    /\ last_op = <<>>
    /\ returned = <<>>
    /\ embeddings = <<>>
    /\ upserted = <<>>
    /\ call = NoCall

(* chunk_file returns (line 84, 102 or 157) and is called again with text *)
ChunkFileAgain(text) ==
    /\ cpc = "done"
    /\ Len(returned) < MaxCalls
    /\ returned' = Append(returned, [content |-> content, chunks |-> chunks])
    /\ content' = text
    /\ cpc' = "start"
    /\ UNCHANGED <<max_tokens, overlap_lines, lines, current_start, chunks>>

RechunkNext ==
    \/ ChunkFileEmpty /\ UNCHANGED <<pipeVars, callVars, vecVars>>
    \/ ChunkFileSingle /\ UNCHANGED <<pipeVars, callVars, vecVars>>
    \/ ChunkFileSplit /\ UNCHANGED <<pipeVars, callVars, vecVars>>
    \/ ChunkLoop /\ UNCHANGED <<pipeVars, callVars, vecVars>>
    \/ \E text \in {FirstContent, FileText("a.py")} : ChunkFileAgain(text) /\ UNCHANGED <<pipeVars, vecVars>>

SpecRechunk == RechunkInit /\ [][RechunkNext]_vars

(***************************************************************************)
(* api.routes.ingestion                                                    *)
(***************************************************************************)
(* the chunker configuration of TextChunker(): settings.MAX_CHUNK_TOKENS   *)
(* is read from the environment (default 800), the overlap likewise        *)
Init ==
    /\ content = <<>>
    /\ \E mt \in {MaxTokensArg, MAX_CHUNK_TOKENS} : max_tokens = mt
    /\ overlap_lines = CHUNK_OVERLAP_LINES
    /\ cpc = "idle"
    /\ lines = <<>>
    /\ current_start = 0
    /\ chunks = <<>>
    /\ jobs = <<>>
    /\ chunksDb = {}
    /\ pc = [j \in JobIds |-> "idle"]
    /\ loc = [j \in JobIds |-> NewLocals]
    /\ now = 1
    /\ events = [j \in JobIds |-> {}]
    /\ last_op = <<>>
    /\ returned = <<>>
    /\ embeddings = <<>>
    /\ upserted = <<>>
    /\ call = NoCall

(* ingest_repository, lines 79-123: the duplicate check, create_job and    *)
(* the scheduling of the background task (a 409 or a failed create_job     *)
(* changes nothing)                                                        *)
IngestRepository(j, url) ==
    /\ j \notin DOMAIN jobs
    /\ pc[j] = "idle"
    /\ ~\E k \in list_jobs(DUPLICATE_SCAN_LIMIT) :
            jobs[k].repo_url = url /\ jobs[k].status \in InProgressStatus
    /\ jobs' = [k \in DOMAIN jobs \cup {j} |-> IF k = j THEN NewJob(url, now) ELSE jobs[k]]
    /\ now' = now + 1
    /\ pc' = [pc EXCEPT ![j] = "start"]
    /\ UNCHANGED <<chunksDb, loc, events, last_op>>

(* lines 287-293: GitClient() verifies git before the try block is entered *)
PipelineStartOk(j) ==
    /\ pc[j] = "start"
    /\ pc' = [pc EXCEPT ![j] = "set_cloning"]
    /\ loc' = [loc EXCEPT ![j] = NewLocals]
    /\ UNCHANGED <<jobs, chunksDb, now, events, last_op>>

(* line 287: GitClient() raises GitClientError outside the try block: the  *)
(* task ends with the exception and no handler runs                        *)
PipelineStartGitMissing(j) ==
    /\ pc[j] = "start"
    /\ pc' = [pc EXCEPT ![j] = "crashed"]
    /\ loc' = [loc EXCEPT ![j] = [NewLocals EXCEPT !.exc = UnexpectedError(GIT_NOT_INSTALLED)]]
    /\ events' = [events EXCEPT ![j] = @ \cup {"git_check"}]
    /\ UNCHANGED <<jobs, chunksDb, now, last_op>>

(* lines 299, 312, 336, 362-363, 370, 400: update_job_status(job_id, S) *)
SetStatusOk(j) ==
    /\ pc[j] \in {"set_cloning", "set_scanning", "set_parsing",
                  "set_chunking", "set_storing", "set_completed"}
    /\ jobs' = UpdateOne(j, update_job_status(jobs[j], PhaseStatus(pc[j]), NoMessage, now))
    /\ now' = now + 1
    /\ loc' = IF pc[j] = "set_chunking"
              THEN [loc EXCEPT ![j].stats.total_chunks = Len(loc[j].all_chunks)]
              ELSE loc
    /\ pc' = [pc EXCEPT ![j] = AfterWrite(pc[j])]
    /\ UNCHANGED <<chunksDb, events, last_op>>

(* lines 331, 359, 365, 394: set_phase_complete(job_id, phase) *)
PhaseCompleteOk(j) ==
    /\ pc[j] \in {"scanning_complete", "parsing_complete",
                  "chunking_complete", "storing_complete"}
    /\ jobs' = UpdateOne(j, set_phase_complete(jobs[j], PhaseName(pc[j]), now))
    /\ now' = now + 1
    /\ pc' = [pc EXCEPT ![j] = AfterWrite(pc[j])]
    /\ UNCHANGED <<chunksDb, loc, events, last_op>>

(* line 304: update_job_local_path(job_id, local_path) *)
SetLocalPathOk(j) ==
    /\ pc[j] = "set_local_path"
    /\ jobs' = UpdateOne(j, update_job_local_path(jobs[j], loc[j].local_path, now))
    /\ now' = now + 1
    /\ pc' = [pc EXCEPT ![j] = AfterWrite(pc[j])]
    /\ UNCHANGED <<chunksDb, loc, events, last_op>>

(* line 399: update_job_stats(job_id, stats) *)
FinalStatsOk(j) ==
    /\ pc[j] = "final_stats"
    /\ jobs' = UpdateOne(j, update_job_stats(jobs[j], loc[j].stats))
    /\ now' = now + 1
    /\ pc' = [pc EXCEPT ![j] = AfterWrite(pc[j])]
    /\ UNCHANGED <<chunksDb, loc, events, last_op>>

(* any JobRepository call of the try block raises (the store is            *)
(* unreachable): nothing is written, `except Exception` is entered         *)
JobWriteRaises(j) ==
    /\ pc[j] \in {"set_cloning", "set_local_path", "set_scanning", "scanning_complete",
                  "set_parsing", "parsing_complete", "set_chunking", "chunking_complete",
                  "set_storing", "storing_complete", "final_stats", "set_completed"}
    /\ Raise(j, UnexpectedError(DB_ERROR), "db_write")
    /\ UNCHANGED <<jobs, chunksDb, now, last_op>>

(* line 303: clone_repository returns (local_path, repo_name) *)
CloneOk(j) ==
    /\ pc[j] = "clone"
    /\ loc' = [loc EXCEPT ![j].local_path = "data/repos/" \o j]
    /\ pc' = [pc EXCEPT ![j] = "set_local_path"]
    /\ UNCHANGED <<jobs, chunksDb, now, events, last_op>>

(* lines 306-307: GitClientError (not found, timeout, ...) becomes an      *)
(* IngestionError                                                          *)
CloneFails(j, e) ==
    /\ pc[j] = "clone"
    /\ Raise(j, CloneIngestionError(e), "clone")
    /\ UNCHANGED <<jobs, chunksDb, now, last_op>>

(* lines 325-328: files_by_language over the catalog *)
CountByLanguage(fs) ==
    [l \in Languages |->
        Cardinality({i \in 1..Len(fs) : get_language_from_extension(fs[i]) = l})]

(* lines 315-330: a non-empty catalog *)
ScanOk(j, fs) ==
    /\ pc[j] = "scan"
    /\ fs # <<>>
    /\ loc' = [loc EXCEPT ![j].files = fs,
                          ![j].stats.total_files = Len(fs),
                          ![j].stats.files_by_language = CountByLanguage(fs)]
    /\ pc' = [pc EXCEPT ![j] = "scanning_complete"]
    /\ UNCHANGED <<jobs, chunksDb, now, events, last_op>>

(* lines 315-323: the catalog is empty *)
ScanEmpty(j) ==
    /\ pc[j] = "scan"
    /\ loc' = [loc EXCEPT ![j].exc = NoFilesIngestionError,
                          ![j].stats.total_files = 0]
    /\ pc' = [pc EXCEPT ![j] = "handler_stats"]
    /\ events' = [events EXCEPT ![j] = @ \cup {"no_files"}]
    /\ UNCHANGED <<jobs, chunksDb, now, last_op>>

(* line 315: get_all_files raises *)
ScanRaises(j) ==
    /\ pc[j] = "scan"
    /\ Raise(j, UnexpectedError(SCAN_ERROR), "scan_raise")
    /\ UNCHANGED <<jobs, chunksDb, now, last_op>>

(* where the file loop goes after the file at idx *)
AfterFile(l) == IF l.idx >= Len(l.files) THEN "parsing_complete" ELSE "parse"

(* a per-file handler that re-raises instead of continuing *)
OnFileErrorAborts(j, l) ==
    /\ loc' = [loc EXCEPT ![j] = [l EXCEPT !.exc = UnexpectedError("file error")]]
    /\ pc' = [pc EXCEPT ![j] = "handler_stats"]

(* lines 352-357: the per-file handlers log and `continue` *)
OnFileError(j, l) ==
    /\ loc' = [loc EXCEPT ![j] = [l EXCEPT !.idx = @ + 1, !.skipped = @ \cup {l.files[l.idx]}]]
    /\ pc' = [pc EXCEPT ![j] = AfterFile(l)]

(* lines 341-350: one file parsed and chunked *)
ParseFileOk(j) ==
    /\ pc[j] = "parse"
    /\ LET l == loc[j]
           f == l.files[l.idx]
       IN /\ loc' = [loc EXCEPT ![j] =
                  [l EXCEPT !.stats.total_lines = @ + total_lines_of(FileText(f)),
                            !.stats.processed_files = @ + 1,
                            !.all_chunks = @ \o FileChunks(j, f),
                            !.idx = @ + 1]]
          /\ pc' = [pc EXCEPT ![j] = AfterFile(l)]
    /\ UNCHANGED <<jobs, chunksDb, now, events, last_op>>

(* line 344 raises (FileParseError or any other exception) *)
ParseFileFails(j) ==
    /\ pc[j] = "parse"
    /\ OnFileError(j, loc[j])
    /\ events' = [events EXCEPT ![j] = @ \cup {"parse"}]
    /\ UNCHANGED <<jobs, chunksDb, now, last_op>>

(* line 349 raises: the file is already counted in the statistics *)
ChunkFileFails(j) ==
    /\ pc[j] = "parse"
    /\ LET l == loc[j]
           f == l.files[l.idx]
       IN OnFileError(j, [l EXCEPT !.stats.total_lines = @ + total_lines_of(FileText(f)),
                                   !.stats.processed_files = @ + 1])
    /\ events' = [events EXCEPT ![j] = @ \cup {"chunk"}]
    /\ UNCHANGED <<jobs, chunksDb, now, last_op>>

(* lines 373-392: insert_chunks_bulk inserts every chunk (none to insert   *)
(* when all_chunks is empty)                                               *)
StoreOk(j) ==
    /\ pc[j] = "store"
    /\ chunksDb' = chunksDb \cup SeqToSet(loc[j].all_chunks)
    /\ pc' = [pc EXCEPT ![j] = "storing_complete"]
    /\ UNCHANGED <<jobs, loc, now, events, last_op>>

(* an insert_chunks_bulk without its `except BulkWriteError` *)
OnBulkWriteErrorRaises(j) ==
    /\ loc' = [loc EXCEPT ![j].exc = UnexpectedError("BulkWriteError")]
    /\ pc' = [pc EXCEPT ![j] = "handler_stats"]

(* repositories.py lines 271-275: BulkWriteError is caught and the number  *)
(* of inserted chunks returned; the pipeline goes on                       *)
OnBulkWriteError(j) ==
    /\ loc' = loc
    /\ pc' = [pc EXCEPT ![j] = "storing_complete"]

(* insert_many(ordered=False) fails on part of the batch: the rest stays   *)
(* inserted                                                                *)
StorePartial(j, part) ==
    /\ pc[j] = "store"
    /\ part \subseteq SeqToSet(loc[j].all_chunks)
    /\ part # SeqToSet(loc[j].all_chunks)
    /\ chunksDb' = chunksDb \cup part
    /\ OnBulkWriteError(j)
    /\ events' = [events EXCEPT ![j] = @ \cup {"bulk_partial"}]
    /\ UNCHANGED <<jobs, now, last_op>>

(* insert_many raises something other than BulkWriteError *)
StoreRaises(j) ==
    /\ pc[j] = "store"
    /\ loc[j].all_chunks # <<>>
    /\ Raise(j, UnexpectedError(STORE_ERROR), "store_raise")
    /\ UNCHANGED <<jobs, chunksDb, now, last_op>>

(* lines 409 and 414: update_job_stats(job_id, stats) in the handlers *)
HandlerStatsOk(j) ==
    /\ pc[j] = "handler_stats"
    /\ jobs' = UpdateOne(j, update_job_stats(jobs[j], loc[j].stats))
    /\ now' = now + 1
    /\ pc' = [pc EXCEPT ![j] = "handler_status"]
    /\ UNCHANGED <<chunksDb, loc, events, last_op>>

(* lines 410 and 415-419: update_job_status(job_id, FAILED, message) *)
HandlerStatusOk(j) ==
    /\ pc[j] = "handler_status"
    /\ jobs' = UpdateOne(j, update_job_status(jobs[j], FAILED, HandlerMessage(loc[j].exc), now))
    /\ now' = now + 1
    /\ pc' = [pc EXCEPT ![j] = "done"]
    /\ UNCHANGED <<chunksDb, loc, events, last_op>>

(* a JobRepository call inside a handler raises: the exception leaves the  *)
(* task                                                                    *)
HandlerWriteRaises(j) ==
    /\ pc[j] \in {"handler_stats", "handler_status"}
    /\ pc' = [pc EXCEPT ![j] = "crashed"]
    /\ events' = [events EXCEPT ![j] = @ \cup {"handler_write"}]
    /\ UNCHANGED <<jobs, chunksDb, loc, now, last_op>>

Next ==
    \/ \E j \in JobIds : \E url \in RepoUrls : IngestRepository(j, url) /\ UNCHANGED <<chunkVars, callVars, vecVars>>
    \/ \E j \in JobIds : PipelineStartOk(j) /\ UNCHANGED <<chunkVars, callVars, vecVars>>
    \/ \E j \in JobIds : PipelineStartGitMissing(j) /\ UNCHANGED <<chunkVars, callVars, vecVars>>
    \/ \E j \in JobIds : SetStatusOk(j) /\ UNCHANGED <<chunkVars, callVars, vecVars>>
    \/ \E j \in JobIds : PhaseCompleteOk(j) /\ UNCHANGED <<chunkVars, callVars, vecVars>>
    \/ \E j \in JobIds : SetLocalPathOk(j) /\ UNCHANGED <<chunkVars, callVars, vecVars>>
    \/ \E j \in JobIds : FinalStatsOk(j) /\ UNCHANGED <<chunkVars, callVars, vecVars>>
    \/ \E j \in JobIds : JobWriteRaises(j) /\ UNCHANGED <<chunkVars, callVars, vecVars>>
    \/ \E j \in JobIds : CloneOk(j) /\ UNCHANGED <<chunkVars, callVars, vecVars>>
    \/ \E j \in JobIds : \E e \in GitClientErrors : CloneFails(j, e) /\ UNCHANGED <<chunkVars, callVars, vecVars>>
    \/ \E j \in JobIds : \E fs \in Catalogs : ScanOk(j, fs) /\ UNCHANGED <<chunkVars, callVars, vecVars>>
    \/ \E j \in JobIds : ScanEmpty(j) /\ UNCHANGED <<chunkVars, callVars, vecVars>>
    \/ \E j \in JobIds : ScanRaises(j) /\ UNCHANGED <<chunkVars, callVars, vecVars>>
    \/ \E j \in JobIds : ParseFileOk(j) /\ UNCHANGED <<chunkVars, callVars, vecVars>>
    \/ \E j \in JobIds : ParseFileFails(j) /\ UNCHANGED <<chunkVars, callVars, vecVars>>
    \/ \E j \in JobIds : ChunkFileFails(j) /\ UNCHANGED <<chunkVars, callVars, vecVars>>
    \/ \E j \in JobIds : StoreOk(j) /\ UNCHANGED <<chunkVars, callVars, vecVars>>
    \/ \E j \in JobIds : \E part \in SUBSET SeqToSet(loc[j].all_chunks) :
            StorePartial(j, part) /\ UNCHANGED <<chunkVars, callVars, vecVars>>
    \/ \E j \in JobIds : StoreRaises(j) /\ UNCHANGED <<chunkVars, callVars, vecVars>>
    \/ \E j \in JobIds : HandlerStatsOk(j) /\ UNCHANGED <<chunkVars, callVars, vecVars>>
    \/ \E j \in JobIds : HandlerStatusOk(j) /\ UNCHANGED <<chunkVars, callVars, vecVars>>
    \/ \E j \in JobIds : HandlerWriteRaises(j) /\ UNCHANGED <<chunkVars, callVars, vecVars>>

Spec == Init /\ [][Next]_vars

(***************************************************************************)
(* The JobRepository API called directly (a caller re-delivering an        *)
(* advance, a maintenance script): every call is one update_one /          *)
(* insert_one / delete_one on the jobs collection                          *)
(***************************************************************************)
RepoErrorMessages == {NoMessage, <<DB_ERROR>>}

RepoStats == {NewJobStats, [NewJobStats EXCEPT !.total_files = 1]}

RepoPhases == {"cloning", "scanning", "parsing", "chunking", "storing"}

RepoCallAllowed == now <= MaxRepoCalls

RepoInit ==
    /\ content = <<>>
    /\ max_tokens = MAX_CHUNK_TOKENS
    /\ overlap_lines = CHUNK_OVERLAP_LINES
    /\ cpc = "idle"
    /\ lines = <<>>
    /\ current_start = 0
    /\ chunks = <<>>
    /\ jobs = <<>>
    /\ chunksDb = {}
    /\ pc = [j \in JobIds |-> "idle"]
    /\ loc = [j \in JobIds |-> NewLocals]
    /\ now = 1
    /\ events = [j \in JobIds |-> {}]
    /\ last_op = <<>>
    /\ returned = <<>>
    /\ embeddings = <<>>
    /\ upserted = <<>>
    /\ call = NoCall

(* JobRepository.create_job, lines 22-44 (a duplicate job_id raises) *)
RepoCreateJob(j, url) ==
    /\ RepoCallAllowed
    /\ j \notin DOMAIN jobs
    /\ jobs' = [k \in DOMAIN jobs \cup {j} |-> IF k = j THEN NewJob(url, now) ELSE jobs[k]]
    /\ now' = now + 1
    /\ last_op' = <<"create_job", j>>
    /\ UNCHANGED <<chunksDb, pc, loc, events>>

(* JobRepository.update_job_status, lines 65-109 *)
RepoUpdateJobStatus(j, status, error_message) ==
    /\ RepoCallAllowed
    /\ jobs' = UpdateOne(j, update_job_status(jobs[j], status, error_message, now))
    /\ now' = now + 1
    /\ last_op' = <<"update_job_status", j, status, error_message>>
    /\ UNCHANGED <<chunksDb, pc, loc, events>>

(* JobRepository.update_job_stats, lines 127-148 *)
RepoUpdateJobStats(j, stats) ==
    /\ RepoCallAllowed
    /\ jobs' = UpdateOne(j, update_job_stats(jobs[j], stats))
    /\ now' = now + 1
    /\ last_op' = <<"update_job_stats", j>>
    /\ UNCHANGED <<chunksDb, pc, loc, events>>

(* JobRepository.set_phase_complete, lines 177-195 *)
RepoSetPhaseComplete(j, phase) ==
    /\ RepoCallAllowed
    /\ jobs' = UpdateOne(j, set_phase_complete(jobs[j], phase, now))
    /\ now' = now + 1
    /\ last_op' = <<"set_phase_complete", j, phase>>
    /\ UNCHANGED <<chunksDb, pc, loc, events>>

(* JobRepository.delete_job, lines 227-243 *)
RepoDeleteJob(j) ==
    /\ RepoCallAllowed
    /\ jobs' = [k \in DOMAIN jobs \ {j} |-> jobs[k]]
    /\ now' = now + 1
    /\ last_op' = <<"delete_job", j>>
    /\ UNCHANGED <<chunksDb, pc, loc, events>>

RepoNext ==
    \/ \E j \in JobIds : \E url \in RepoUrls : RepoCreateJob(j, url) /\ UNCHANGED <<chunkVars, callVars, vecVars>>
    \/ \E j \in JobIds : \E st \in JobStatus : \E e \in RepoErrorMessages :
            RepoUpdateJobStatus(j, st, e) /\ UNCHANGED <<chunkVars, callVars, vecVars>>
    \/ \E j \in JobIds : \E st \in RepoStats : RepoUpdateJobStats(j, st) /\ UNCHANGED <<chunkVars, callVars, vecVars>>
    \/ \E j \in JobIds : \E ph \in RepoPhases : RepoSetPhaseComplete(j, ph) /\ UNCHANGED <<chunkVars, callVars, vecVars>>
    \/ \E j \in JobIds : RepoDeleteJob(j) /\ UNCHANGED <<chunkVars, callVars, vecVars>>

SpecRepo == RepoInit /\ [][RepoNext]_vars

(***************************************************************************)
(* embeddings.vector_store.VectorStore                                     *)
(*                                                                         *)
(* Vectors are pairs of integers whose norms are integers, and a score is  *)
(* the cosine similarity in hundredths (SIMILARITY_THRESHOLD 0.5 is 50),   *)
(* so that every comparison of the code is exact.  A chunk_id is a number: *)
(* chunk ids are unique over all jobs (the unique index on chunk_id), so   *)
(* every chunk_id belongs to one job.                                      *)
(***************************************************************************)
SIMILARITY_THRESHOLD == 50
DEFAULT_TOP_K == 5

SearchJobs == {"j1", "j2"}
ChunkIds == 1..MaxUnits
JobOfChunk(u) == IF u % 2 = 1 THEN "j1" ELSE "j2"

DocVectors == { <<1, 0>>, <<7, 24>> }
QueryVectors == { <<1, 0>>, <<0, 0>> }
TopKs == {1, 2}
ScoreThresholds == {0, 60}

(* EmbeddingDocument.to_mongo_dict, the fields the searches read *)
EmbeddingDocument(u, v) == [chunk_id |-> u, job_id |-> JobOfChunk(u), embedding |-> v]

Dot(a, b) == a[1] * b[1] + a[2] * b[2]

Abs(x) == IF x < 0 THEN 0 - x ELSE x

(* np.linalg.norm of every vector in use, computed once *)
VectorNorms ==
    [v \in DocVectors \cup QueryVectors |->
        CHOOSE r \in 0..(Abs(v[1]) + Abs(v[2])) : r * r = Dot(v, v)]

Norm(v) == VectorNorms[v]

(* float(np.dot(query_arr / query_norm, doc_arr / doc_norm)), in hundredths *)
CosineScore(q, d) == (100 * Dot(q, d)) \div (Norm(q) * Norm(d))

SearchResult(doc, score) == [chunk_id |-> doc.chunk_id, job_id |-> doc.job_id, score |-> score]

Take(sq, k) == SubSeq(sq, 1, IF k < Len(sq) THEN k ELSE Len(sq))

(* collection.find over every job: no job_id filter *)
FindEveryJob(db, job_id) == db

(* collection.find({"job_id": job_id}), lines 304-309: natural order *)
FindByJob(db, job_id) == SelectSeq(db, LAMBDA d : d.job_id = job_id)

(* lines 320-334: the (score, doc) pairs that pass the threshold, in       *)
(* cursor order; a document with a zero vector is skipped                  *)
RECURSIVE ScoredResults(_, _, _)
ScoredResults(docs, q, threshold) ==
    IF docs = <<>> THEN <<>>
    ELSE LET d == Head(docs)
             rest == ScoredResults(Tail(docs), q, threshold)
         IN IF d.embedding # <<>> /\ Norm(d.embedding) > 0
                  /\ CosineScore(q, d.embedding) >= threshold
            THEN <<SearchResult(d, CosineScore(q, d.embedding))>> \o rest
            ELSE rest

(* list.sort(key=score, reverse=True): stable, equal scores keep their     *)
(* cursor order                                                            *)
RECURSIVE SortByScoreDesc(_)
SortByScoreDesc(sq) ==
    IF sq = <<>> THEN <<>>
    ELSE LET best == CHOOSE i \in 1..Len(sq) :
                        /\ \A k \in 1..Len(sq) : sq[k].score <= sq[i].score
                        /\ \A k \in 1..(i - 1) : sq[k].score < sq[i].score
         IN <<sq[best]>> \o SortByScoreDesc(SubSeq(sq, 1, best - 1) \o SubSeq(sq, best + 1, Len(sq)))

(* VectorStore._fallback_similarity_search, lines 281-355 *)
_fallback_similarity_search(db, q, job_id, top_k, threshold) ==
    IF Norm(q) = 0 THEN <<>>
    ELSE Take(SortByScoreDesc(ScoredResults(FindByJob(db, job_id), q, threshold)), top_k)

(* the documents of the job the $vectorSearch stage can score: cosine      *)
(* similarity is undefined for a zero vector                               *)
SearchCandidates(db, q, job_id) ==
    { SearchResult(db[i], CosineScore(q, db[i].embedding)) :
        i \in { k \in 1..Len(db) : db[k].job_id = job_id /\ Norm(db[k].embedding) > 0 } }

(* the cursors collection.aggregate(pipeline) can yield, lines 229-257:    *)
(* the `limit` best documents of the job in descending score order; the    *)
(* order of documents of equal score is the server's choice                *)
VectorSearchStage(db, q, job_id, limit) ==
    IF Norm(q) = 0 THEN {}
    ELSE LET cands == SearchCandidates(db, q, job_id)
             n == Cardinality(cands)
         IN { Take(f, limit) :
                f \in { g \in [1..n -> cands] :
                          /\ \A i \in 1..n : \A k \in 1..n : i # k => g[i] # g[k]
                          /\ \A i \in 1..n : \A k \in 1..n :
                                i < k => g[i].score >= g[k].score } }

(* what the accelerated path can do on one call: yield a cursor, raise     *)
(* OperationFailure (no $vectorSearch, no index), or raise anything else   *)
(* (ServerSelectionTimeoutError, AutoReconnect, ...)                       *)
AtlasOutcomes(db, q, job_id, top_k) ==
    { [kind |-> "ok", cursor |-> c] : c \in VectorSearchStage(db, q, job_id, top_k) }
    \cup { [kind |-> "OperationFailure", cursor |-> <<>>],
           [kind |-> "error", cursor |-> <<>>] }

(* VectorStore._atlas_vector_search, lines 256-279: the threshold is       *)
(* applied to the documents the stage returned                             *)
_atlas_vector_search(cursor, threshold) ==
    SelectSeq(cursor, LAMBDA r : r.score >= threshold)

(* similarity_search with every exception of the accelerated path caught   *)
(* and with an empty accelerated answer returned as it is                  *)
similarity_search_catch_all(db, q, job_id, top_k, score_threshold, atlas) ==
    LET threshold == OrDefault(score_threshold, SIMILARITY_THRESHOLD)
        fallback == [path |-> "fallback", raised |-> FALSE,
                     results |-> _fallback_similarity_search(db, q, job_id, top_k, threshold)]
    IN IF atlas.kind = "ok"
       THEN [path |-> "atlas", raised |-> FALSE,
             results |-> _atlas_vector_search(atlas.cursor, threshold)]
       ELSE fallback

(* VectorStore.similarity_search, lines 170-208 *)
similarity_search(db, q, job_id, top_k, score_threshold, atlas) ==
    LET threshold == OrDefault(score_threshold, SIMILARITY_THRESHOLD)
        fallback == [path |-> "fallback", raised |-> FALSE,
                     results |-> _fallback_similarity_search(db, q, job_id, top_k, threshold)]
    IN CASE atlas.kind = "ok" ->
               LET results == _atlas_vector_search(atlas.cursor, threshold)
               IN IF results # <<>>
                  THEN [path |-> "atlas", raised |-> FALSE, results |-> results]
                  ELSE fallback
         [] atlas.kind = "OperationFailure" -> fallback
         [] OTHER -> [path |-> "atlas", raised |-> TRUE, results |-> <<>>]

(* an insert where the code upserts: the document is always appended *)
InsertOne(db, doc) == Append(db, doc)

(* UpdateOne({"chunk_id": doc.chunk_id}, {"$set": ...}, upsert=True),      *)
(* lines 145-149: the stored document of that chunk_id is overwritten in   *)
(* place, a new chunk_id is inserted                                       *)
UpsertOne(db, doc) ==
    IF \E i \in 1..Len(db) : db[i].chunk_id = doc.chunk_id
    THEN [i \in 1..Len(db) |-> IF db[i].chunk_id = doc.chunk_id THEN doc ELSE db[i]]
    ELSE Append(db, doc)

(* collection.bulk_write(operations, ordered=False), line 153: the         *)
(* operations at the positions in `applied` take effect                    *)
RECURSIVE bulk_write(_, _, _, _)
bulk_write(db, docs, applied, i) ==
    IF i > Len(docs) THEN db
    ELSE bulk_write(IF i \in applied THEN UpsertOne(db, docs[i]) ELSE db, docs, applied, i + 1)

(* the history of the last upsert applied to each chunk_id *)
RecordUpserts(hist, docs, applied) ==
    LET ids == { docs[i].chunk_id : i \in applied }
    IN [u \in DOMAIN hist \cup ids |->
          IF u \in ids THEN (CHOOSE d \in { docs[i] : i \in applied } : d.chunk_id = u)
          ELSE hist[u]]

(* result.modified_count (nModified): the applied operations that found a *)
(* stored document of their chunk_id; created_at is a new utcnow() in      *)
(* every to_mongo_dict, so such a document is always modified              *)
modified_count(db, docs, applied) ==
    Cardinality({ i \in applied : \E k \in 1..Len(db) : db[k].chunk_id = docs[i].chunk_id })

(* result.upserted_count (nUpserted): the applied operations that inserted *)
upserted_count(db, docs, applied) ==
    Cardinality(applied) - modified_count(db, docs, applied)

(* the batches embed_job_chunks builds: one document per chunk, the chunk  *)
(* ids distinct (taken in ascending order: the write is unordered); the    *)
(* empty batch, one document, or two, the least a partial write needs      *)
BatchDocuments == { EmbeddingDocument(u, v) : u \in ChunkIds, v \in DocVectors }

Batches ==
    { <<>> } \cup { <<d>> : d \in BatchDocuments }
    \cup { b \in BatchDocuments \X BatchDocuments : b[1].chunk_id < b[2].chunk_id }

(* a BulkWriteError that is not caught, or caught and raised again *)
OnUpsertBulkWriteErrorRaises(db, docs, applied) ==
    [returned |-> 0, raised |-> TRUE]

(* lines 162-165: nUpserted + nModified of the BulkWriteError details *)
OnUpsertBulkWriteError(db, docs, applied) ==
    [returned |-> upserted_count(db, docs, applied) + modified_count(db, docs, applied),
     raised |-> FALSE]

VecInit ==
    /\ content = <<>>
    /\ max_tokens = MAX_CHUNK_TOKENS
    /\ overlap_lines = CHUNK_OVERLAP_LINES
    /\ cpc = "idle"
    /\ lines = <<>>
    /\ current_start = 0
    /\ chunks = <<>>
    /\ jobs = <<>>
    /\ chunksDb = {}
    /\ pc = [j \in JobIds |-> "idle"]
    /\ loc = [j \in JobIds |-> NewLocals]
    /\ now = 1
    /\ events = [j \in JobIds |-> {}]
    /\ last_op = <<>>
    /\ returned = <<>>
    /\ embeddings = <<>>
    /\ upserted = <<>>
    /\ call = NoCall

(* upsert_embeddings, lines 136-160: every operation applied (an empty     *)
(* batch returns 0 without a write)                                        *)
UpsertOk(docs) ==
    /\ embeddings' = bulk_write(embeddings, docs, 1..Len(docs), 1)
    /\ upserted' = RecordUpserts(upserted, docs, 1..Len(docs))
    /\ call' = [op |-> "upsert_embeddings", outcome |-> "ok", batch |-> Len(docs),
                applied |-> Len(docs),
                modified |-> modified_count(embeddings, docs, 1..Len(docs)),
                returned |-> upserted_count(embeddings, docs, 1..Len(docs))
                             + modified_count(embeddings, docs, 1..Len(docs)),
                raised |-> FALSE]

(* upsert_embeddings, lines 162-165: bulk_write raises BulkWriteError      *)
(* after applying only the operations in `applied`                         *)
UpsertBulkWriteError(docs, applied) ==
    /\ applied \subseteq 1..Len(docs)
    /\ applied # 1..Len(docs)
    /\ embeddings' = bulk_write(embeddings, docs, applied, 1)
    /\ upserted' = RecordUpserts(upserted, docs, applied)
    /\ LET r == OnUpsertBulkWriteError(embeddings, docs, applied)
       IN call' = [op |-> "upsert_embeddings", outcome |-> "BulkWriteError", batch |-> Len(docs),
                   applied |-> Cardinality(applied),
                   modified |-> modified_count(embeddings, docs, applied),
                   returned |-> r.returned, raised |-> r.raised]

(* upsert_embeddings, lines 166-168: bulk_write raises anything else (the  *)
(* connection lost between two batches of the unordered write, a timeout); *)
(* the operations in `applied` took effect before, VectorStoreError is     *)
(* raised                                                                  *)
UpsertRaises(docs, applied) ==
    /\ docs # <<>>
    /\ applied \subseteq 1..Len(docs)
    /\ embeddings' = bulk_write(embeddings, docs, applied, 1)
    /\ upserted' = RecordUpserts(upserted, docs, applied)
    /\ call' = [op |-> "upsert_embeddings", outcome |-> "error", batch |-> Len(docs),
                applied |-> Cardinality(applied),
                modified |-> modified_count(embeddings, docs, applied),
                returned |-> 0, raised |-> TRUE]

(* VectorStore.similarity_search, lines 170-208 *)
SimilaritySearch(q, job_id, top_k, score_threshold, atlas) ==
    /\ LET r == similarity_search(embeddings, q, job_id, top_k, score_threshold, atlas)
       IN call' = [op |-> "similarity_search", query |-> q, job_id |-> job_id,
                   top_k |-> top_k, score_threshold |-> score_threshold,
                   atlas |-> atlas.kind, path |-> r.path, results |-> r.results,
                   raised |-> r.raised]
    /\ UNCHANGED <<embeddings, upserted>>

(* upserts and searches in any order; batches of one document reach every *)
(* content of the collection                                               *)
VecNext ==
    \/ \E docs \in { b \in Batches : Len(b) = 1 } :
            UpsertOk(docs) /\ UNCHANGED <<chunkVars, pipeVars, callVars>>
    \/ \E q \in QueryVectors : \E job_id \in SearchJobs : \E top_k \in TopKs :
        \E score_threshold \in ScoreThresholds :
        \E atlas \in AtlasOutcomes(embeddings, q, job_id, top_k) :
            SimilaritySearch(q, job_id, top_k, score_threshold, atlas)
                /\ UNCHANGED <<chunkVars, pipeVars, callVars>>

SpecVec == VecInit /\ [][VecNext]_vars

UpsertNext ==
    \/ \E docs \in Batches : UpsertOk(docs) /\ UNCHANGED <<chunkVars, pipeVars, callVars>>
    \/ \E docs \in Batches : \E applied \in SUBSET (1..Len(docs)) :
            UpsertBulkWriteError(docs, applied) /\ UNCHANGED <<chunkVars, pipeVars, callVars>>
    \/ \E docs \in Batches : \E applied \in SUBSET (1..Len(docs)) :
            UpsertRaises(docs, applied) /\ UNCHANGED <<chunkVars, pipeVars, callVars>>

SpecUpsert == VecInit /\ [][UpsertNext]_vars

(***************************************************************************)
(* retrieval.retriever.Retriever and the POST /retrieve route              *)
(* (api.routes.retrieval.retrieve_chunks)                                  *)
(*                                                                         *)
(* The chunks collection holds, for this part, the fields the retriever    *)
(* reads of a chunk: its job_id and its chunk_id.  Chunk u is the u-th     *)
(* chunk in (file_path, start_line) order.                                 *)
(***************************************************************************)
StoredChunk(u) == [job_id |-> JobOfChunk(u), chunk_id |-> u]

(* EmbeddingService.generate_embeddings: the vector of the content of      *)
(* chunk u                                                                 *)
EmbeddingOf(u) == IF u = 1 THEN <<1, 0>> ELSE <<7, 24>>

RECURSIVE AscendingSeq(_)
AscendingSeq(S) ==
    IF S = {} THEN <<>>
    ELSE LET m == CHOOSE x \in S : \A y \in S : x <= y
         IN <<m>> \o AscendingSeq(S \ {m})

(* ChunkRepository.get_chunks_by_job: the chunks of the job, sorted by     *)
(* file_path and start_line                                                *)
get_chunks_by_job(cdb, job_id) ==
    AscendingSeq({ c.chunk_id : c \in { x \in cdb : x.job_id = job_id } })

(* VectorStore.has_embeddings: count_documents({"job_id": job_id}) > 0 *)
has_embeddings(db, job_id) == \E i \in 1..Len(db) : db[i].job_id = job_id

(* what the embedding pass over n chunks can meet: nothing, a failure of   *)
(* generate_embeddings, a BulkWriteError of the store after part of the    *)
(* batch, any other failure of the store after any part of the batch       *)
EmbedOutcomes(n) ==
    { [kind |-> "ok", applied |-> 1..n], [kind |-> "embed_error", applied |-> {}] }
    \cup { [kind |-> "BulkWriteError", applied |-> a] : a \in (SUBSET (1..n)) \ {1..n} }
    \cup { [kind |-> "error", applied |-> a] : a \in SUBSET (1..n) }

(* the documents embed_job_chunks builds, lines 176-189 *)
EmbeddingDocuments(cdb, job_id) ==
    LET cs == get_chunks_by_job(cdb, job_id)
    IN [i \in 1..Len(cs) |-> EmbeddingDocument(cs[i], EmbeddingOf(cs[i]))]

(* Retriever.embed_job_chunks, lines 139-198: the collection it leaves and *)
(* whether it raised RetrieverError                                        *)
embed_job_chunks(cdb, db, job_id, eo) ==
    LET docs == EmbeddingDocuments(cdb, job_id)
    IN CASE docs = <<>> -> [db |-> db, applied |-> {}, raised |-> FALSE]
         [] docs # <<>> /\ eo.kind = "embed_error" ->
                [db |-> db, applied |-> {}, raised |-> TRUE]
         [] OTHER -> [db |-> bulk_write(db, docs, eo.applied, 1), applied |-> eo.applied,
                      raised |-> eo.kind = "error"]

(* generate_single_embedding(query): a vector, or a failure *)
QueryOutcomes ==
    { [kind |-> "ok", vector |-> q] : q \in QueryVectors }
    \cup { [kind |-> "error", vector |-> <<0, 0>>] }

(* the arguments left out (None) are 0 *)
RetrieveTopKs == {0, 1}

(* the collection as the search of a retrieve call finds it *)
DbAtSearch(cdb, db, job_id, eo) ==
    IF has_embeddings(db, job_id) THEN db ELSE embed_job_chunks(cdb, db, job_id, eo).db

(* Retriever.retrieve, lines 65-137 *)
retrieve(js, cdb, db, job_id, top_k, score_threshold, eo, qo, atlas) ==
    LET k == OrDefault(top_k, DEFAULT_TOP_K)
        threshold == OrDefault(score_threshold, SIMILARITY_THRESHOLD)
        embedded == ~has_embeddings(db, job_id)
        e == IF embedded THEN embed_job_chunks(cdb, db, job_id, eo)
             ELSE [db |-> db, applied |-> {}, raised |-> FALSE]
        r == similarity_search(e.db, qo.vector, job_id, k, threshold, atlas)
    IN CASE job_id \notin DOMAIN js ->
                [raised |-> TRUE, error |-> "Job not found", results |-> <<>>,
                 embedded |-> FALSE, db |-> db, applied |-> {}]
         [] job_id \in DOMAIN js /\ e.raised ->
                [raised |-> TRUE, error |-> "Failed to embed", results |-> <<>>,
                 embedded |-> embedded, db |-> e.db, applied |-> e.applied]
         [] job_id \in DOMAIN js /\ ~e.raised /\ qo.kind = "error" ->
                [raised |-> TRUE, error |-> "Failed to generate query embedding",
                 results |-> <<>>, embedded |-> embedded, db |-> e.db, applied |-> e.applied]
         [] OTHER ->
                [raised |-> r.raised,
                 error |-> IF r.raised THEN "Similarity search failed" ELSE "",
                 results |-> r.results, embedded |-> embedded, db |-> e.db,
                 applied |-> e.applied]

(* the answer of the route when it raises HTTPException before it builds a *)
(* Retriever                                                               *)
Rejected(http, db) ==
    [http |-> http, called |-> FALSE, error |-> "", results |-> <<>>,
     embedded |-> FALSE, db |-> db, applied |-> {}]

(* lines 140-177: Retriever().retrieve(...), a RetrieverError answered 500 *)
Delegated(r) ==
    [http |-> IF r.raised THEN 500 ELSE 200, called |-> TRUE, error |-> r.error,
     results |-> r.results, embedded |-> r.embedded, db |-> r.db, applied |-> r.applied]

(* a route that never looks at job.status *)
retrieve_chunks_ungated(js, cdb, db, valid, job_id, top_k, score_threshold, eo, qo, atlas) ==
    CASE ~valid -> Rejected(400, db)
      [] valid /\ job_id \notin DOMAIN js -> Rejected(404, db)
      [] OTHER -> Delegated(retrieve(js, cdb, db, job_id, top_k, score_threshold,
                                     eo, qo, atlas))

(* retrieve_chunks, lines 96-177: the HTTP status of the answer, whether   *)
(* Retriever.retrieve was called, and what it did if so                    *)
retrieve_chunks(js, cdb, db, valid, job_id, top_k, score_threshold, eo, qo, atlas) ==
    CASE ~valid -> Rejected(400, db)
      [] valid /\ job_id \notin DOMAIN js -> Rejected(404, db)
      [] valid /\ job_id \in DOMAIN js /\ js[job_id].status # COMPLETED -> Rejected(400, db)
      [] OTHER -> Delegated(retrieve(js, cdb, db, job_id, top_k, score_threshold,
                                     eo, qo, atlas))

(* the status of the job of a call, "" when there is no such job *)
StatusOf(js, job_id) == IF job_id \in DOMAIN js THEN js[job_id].status ELSE ""

(* the jobs collection holds no job or one job in any status; chunks are   *)
(* stored from the STORING phase on, and stay after a failure              *)
RetrieveInit ==
    /\ content = <<>>
    /\ max_tokens = MAX_CHUNK_TOKENS
    /\ overlap_lines = CHUNK_OVERLAP_LINES
    /\ cpc = "idle"
    /\ lines = <<>>
    /\ current_start = 0
    /\ chunks = <<>>
    /\ \E s \in JobStatus \cup {""} :
         /\ jobs = IF s = "" THEN <<>>
                   ELSE [j \in JobIds |->
                           update_job_status(NewJob("u1", 1), s,
                               IF s = FAILED THEN HandlerMessage(UnexpectedError(STORE_ERROR))
                               ELSE NoMessage, 1)]
         /\ \E us \in SUBSET { u \in ChunkIds : JobOfChunk(u) \in JobIds } :
              /\ (us # {} => s \in {STORING, COMPLETED, FAILED})
              /\ chunksDb = { StoredChunk(u) : u \in us }
    /\ pc = [j \in JobIds |-> "idle"]
    /\ loc = [j \in JobIds |-> NewLocals]
    /\ now = 1
    /\ events = [j \in JobIds |-> {}]
    /\ last_op = <<>>
    /\ returned = <<>>
    /\ embeddings = <<>>
    /\ upserted = <<>>
    /\ call = NoCall

(* a direct call of Retriever.retrieve (the generator, a script) *)
RetrieverRetrieve(job_id, top_k, score_threshold, eo, qo, atlas) ==
    LET r == retrieve(jobs, chunksDb, embeddings, job_id, top_k, score_threshold,
                      eo, qo, atlas)
    IN /\ embeddings' = r.db
       /\ upserted' = RecordUpserts(upserted, EmbeddingDocuments(chunksDb, job_id), r.applied)
       /\ call' = [op |-> "retrieve", job_id |-> job_id,
                   status |-> StatusOf(jobs, job_id), http |-> 0, called |-> TRUE,
                   raised |-> r.raised, error |-> r.error, results |-> r.results,
                   embedded |-> r.embedded]

(* POST /retrieve *)
RetrieveChunks(valid, job_id, top_k, score_threshold, eo, qo, atlas) ==
    LET a == retrieve_chunks(jobs, chunksDb, embeddings, valid, job_id, top_k,
                             score_threshold, eo, qo, atlas)
    IN /\ embeddings' = a.db
       /\ upserted' = RecordUpserts(upserted, EmbeddingDocuments(chunksDb, job_id), a.applied)
       /\ call' = [op |-> "retrieve_chunks", valid |-> valid, job_id |-> job_id,
                   status |-> StatusOf(jobs, job_id), http |-> a.http, called |-> a.called,
                   raised |-> a.http # 200, error |-> a.error, results |-> a.results,
                   embedded |-> a.embedded]

RetrieveNext ==
    \/ \E job_id \in SearchJobs : \E top_k \in RetrieveTopKs :
        \E score_threshold \in ScoreThresholds :
        \E eo \in EmbedOutcomes(Len(get_chunks_by_job(chunksDb, job_id))) :
        \E qo \in QueryOutcomes :
        \E atlas \in AtlasOutcomes(DbAtSearch(chunksDb, embeddings, job_id, eo), qo.vector,
                                   job_id, OrDefault(top_k, DEFAULT_TOP_K)) :
            RetrieverRetrieve(job_id, top_k, score_threshold, eo, qo, atlas)
                /\ UNCHANGED <<chunkVars, pipeVars, callVars>>
    \/ \E valid \in BOOLEAN : \E job_id \in SearchJobs : \E top_k \in {1, DEFAULT_TOP_K} :
        \E score_threshold \in ScoreThresholds :
        \E eo \in EmbedOutcomes(Len(get_chunks_by_job(chunksDb, job_id))) :
        \E qo \in QueryOutcomes :
        \E atlas \in AtlasOutcomes(DbAtSearch(chunksDb, embeddings, job_id, eo), qo.vector,
                                   job_id, top_k) :
            RetrieveChunks(valid, job_id, top_k, score_threshold, eo, qo, atlas)
                /\ UNCHANGED <<chunkVars, pipeVars, callVars>>

SpecRetrieve == RetrieveInit /\ [][RetrieveNext]_vars

(***************************************************************************)
(* generation.generator.Generator._calculate_confidence                    *)
(*                                                                         *)
(* A Python float is a binary floating-point number: every operation       *)
(* rounds its exact result to the nearest number of MantissaBits           *)
(* significant bits, ties to the even mantissa (53 bits in the code).  A   *)
(* float is held as a whole number of units of 2^-(3 * MantissaBits);      *)
(* scores are not negative.                                                *)
(***************************************************************************)
(* 1.0 in units *)
One == Pow2(3 * MantissaBits)

(* num / den rounded to the nearest integer, ties to even *)
RoundHalfEven(num, den) ==
    LET q == num \div den
        r == num % den
    IN IF 2 * r < den THEN q
       ELSE IF 2 * r > den THEN q + 1
       ELSE IF q % 2 = 0 THEN q ELSE q + 1

(* the float nearest to num / den units *)
Round(num, den) ==
    LET fits == { j \in 0..(2 * MantissaBits + 2) :
                    num >= Pow2(MantissaBits - 1) * Pow2(j) * den }
        j == IF fits = {} THEN 0 ELSE CHOOSE x \in fits : \A y \in fits : y <= x
    IN RoundHalfEven(num, den * Pow2(j)) * Pow2(j)

(* sum(r.score for r in results): 0 + s1 + s2 + ..., rounded at every step *)
RECURSIVE FSum(_, _)
FSum(scores, acc) ==
    IF scores = <<>> THEN acc
    ELSE FSum(Tail(scores), Round(acc + Head(scores), 1))

RECURSIVE ExactSum(_)
ExactSum(scores) == IF scores = <<>> THEN 0 ELSE Head(scores) + ExactSum(Tail(scores))

(* line 346: sum(...) / len(results) *)
avg_score(scores) == Round(FSum(scores, 0), Len(scores))

(* a remapping that turns the scale over: (1 - avg_score) / 2 *)
normalized_avg_flipped(avg) == Round(Round(IF avg > One THEN 0 ELSE One - avg, 1), 2)

(* line 350: (avg_score + 1) / 2 *)
normalized_avg(avg) == Round(Round(avg + One, 1), 2)

(* line 353: min(len(results) / 5, 1.0) *)
result_factor(n) == LET f == Round(n * One, 5) IN IF f < One THEN f ELSE One

(* lines 331-360, for a non-empty list of scores; 0.7 and 0.3 are the      *)
(* floats nearest to 7/10 and 3/10                                         *)
_calculate_confidence(scores) ==
    LET confidence == Round(Round(normalized_avg(avg_score(scores)) * Round(7 * One, 10), One)
                            + Round(result_factor(Len(scores)) * Round(3 * One, 10), One), 1)
    IN IF confidence > One THEN One ELSE confidence

(* the scores a result can carry: every float from 0.5 to 1.0 *)
ScoreFloats == { x \in (One \div 2)..One : Round(x, 1) = x }

(* the confidence of two result lists of the same length, computed once   *)
(* in a behaviour                                                          *)
CalculateConfidence(a, b) ==
    /\ call = NoCall
    /\ call' = [op |-> "_calculate_confidence", a |-> a, b |-> b,
                avg_a |-> avg_score(a), avg_b |-> avg_score(b),
                conf_a |-> _calculate_confidence(a), conf_b |-> _calculate_confidence(b)]
    /\ UNCHANGED <<embeddings, upserted>>

ConfNext ==
    \E n \in TopKs : \E a \in [1..n -> ScoreFloats] : \E b \in [1..n -> ScoreFloats] :
        CalculateConfidence(a, b) /\ UNCHANGED <<chunkVars, pipeVars, callVars>>

SpecConf == VecInit /\ [][ConfNext]_vars

(***************************************************************************)
(* api.routes.ingestion.ingest_repository against a jobs collection that   *)
(* already holds jobs.  The route is a coroutine without an await between  *)
(* its duplicate check and create_job, so a request runs as one step.      *)
(***************************************************************************)
IngestUrls == {"https://github.com/o/r", "https://github.com/o/s"}

(* an earlier job of repository o/r in status s, followed by n jobs of     *)
(* repository o/s that have all completed; job k was created at time k     *)
EarlierJobs(s, n) ==
    [k \in 1..(n + 1) |->
        IF k = 1
        THEN update_job_status(NewJob("https://github.com/o/r", 1), s,
                 IF s = FAILED THEN HandlerMessage(UnexpectedError(STORE_ERROR))
                 ELSE NoMessage, 1)
        ELSE update_job_status(NewJob("https://github.com/o/s", k), COMPLETED, NoMessage, k)]

IngestInit ==
    /\ content = <<>>
    /\ max_tokens = MAX_CHUNK_TOKENS
    /\ overlap_lines = CHUNK_OVERLAP_LINES
    /\ cpc = "idle"
    /\ lines = <<>>
    /\ current_start = 0
    /\ chunks = <<>>
    /\ \E s \in JobStatus :
        \E n \in {0, 1, DUPLICATE_SCAN_LIMIT - 1, DUPLICATE_SCAN_LIMIT} :
            /\ jobs = EarlierJobs(s, n)
            /\ now = n + 2
    /\ chunksDb = {}
    /\ pc = [j \in JobIds |-> "idle"]
    /\ loc = [j \in JobIds |-> NewLocals]
    /\ events = [j \in JobIds |-> {}]
    /\ last_op = <<>>
    /\ returned = <<>>
    /\ embeddings = <<>>
    /\ upserted = <<>>
    /\ call = NoCall

(* lines 62-77: validate_github_url or extract_repo_info rejects the URL *)
IngestInvalidUrl(url) ==
    /\ call' = [op |-> "ingest_repository", repo_url |-> url, http |-> 400, job_id |-> 0]
    /\ UNCHANGED <<jobs, now>>

(* lines 79-89: a job of the same URL in a non-terminal status is found    *)
(* among the jobs list_jobs(limit=100) returns                             *)
IngestConflict(url) ==
    /\ \E k \in list_jobs(DUPLICATE_SCAN_LIMIT) :
            jobs[k].repo_url = url /\ jobs[k].status \in InProgressStatus
    /\ call' = [op |-> "ingest_repository", repo_url |-> url, http |-> 409, job_id |-> 0]
    /\ UNCHANGED <<jobs, now>>

(* lines 91-123: no such job found; the job is created PENDING (202), or   *)
(* create_job raises (500)                                                 *)
IngestAccepted(url, created) ==
    /\ ~\E k \in list_jobs(DUPLICATE_SCAN_LIMIT) :
            jobs[k].repo_url = url /\ jobs[k].status \in InProgressStatus
    /\ LET j == Cardinality(DOMAIN jobs) + 1
       IN IF created
          THEN /\ jobs' = [k \in DOMAIN jobs \cup {j} |->
                              IF k = j THEN NewJob(url, now) ELSE jobs[k]]
               /\ now' = now + 1
               /\ call' = [op |-> "ingest_repository", repo_url |-> url, http |-> 202,
                           job_id |-> j]
          ELSE /\ call' = [op |-> "ingest_repository", repo_url |-> url, http |-> 500,
                           job_id |-> 0]
               /\ UNCHANGED <<jobs, now>>

IngestNext ==
    \/ \E url \in IngestUrls : IngestInvalidUrl(url)
        /\ UNCHANGED <<chunkVars, callVars, chunksDb, pc, loc, events, last_op,
                       embeddings, upserted>>
    \/ \E url \in IngestUrls : IngestConflict(url)
        /\ UNCHANGED <<chunkVars, callVars, chunksDb, pc, loc, events, last_op,
                       embeddings, upserted>>
    \/ \E url \in IngestUrls : \E created \in BOOLEAN : IngestAccepted(url, created)
        /\ UNCHANGED <<chunkVars, callVars, chunksDb, pc, loc, events, last_op,
                       embeddings, upserted>>

SpecIngest == IngestInit /\ [][IngestNext]_vars

(***************************************************************************)
(* api.routes.ingestion.delete_job, and an embedding pass                  *)
(* (Retriever.embed_job_chunks) that runs beside it.  delete_job never     *)
(* yields to the event loop, so it is one step; embed_job_chunks yields at *)
(* `await generate_embeddings(texts)`, between reading the chunks and      *)
(* storing the embeddings.  `call` holds the embedding pass, `last_op` the *)
(* answer of the last delete_job.  The cloned directory is not part of the *)
(* state: a failure to remove it is logged and changes nothing else.       *)
(***************************************************************************)
NoPass == [op |-> "embed_job_chunks", pos |-> "idle", job_id |-> "", docs |-> <<>>,
           raised |-> FALSE]

DeleteInit ==
    /\ content = <<>>
    /\ max_tokens = MAX_CHUNK_TOKENS
    /\ overlap_lines = CHUNK_OVERLAP_LINES
    /\ cpc = "idle"
    /\ lines = <<>>
    /\ current_start = 0
    /\ chunks = <<>>
    /\ \E s \in JobStatus \cup {""} :
         /\ jobs = IF s = "" THEN <<>>
                   ELSE [j \in JobIds |->
                           update_job_status(NewJob("u1", 1), s,
                               IF s = FAILED THEN HandlerMessage(UnexpectedError(STORE_ERROR))
                               ELSE NoMessage, 1)]
         /\ \E us \in SUBSET { u \in ChunkIds : JobOfChunk(u) \in JobIds } :
              /\ (us # {} => s \in {STORING, COMPLETED, FAILED})
              /\ chunksDb = { StoredChunk(u) : u \in us }
    /\ \E embedded \in BOOLEAN :
         embeddings = IF embedded /\ jobs # <<>> /\ jobs["j1"].status = COMPLETED
                      THEN EmbeddingDocuments(chunksDb, "j1") ELSE <<>>
    /\ upserted = <<>>
    /\ pc = [j \in JobIds |-> "idle"]
    /\ loc = [j \in JobIds |-> NewLocals]
    /\ now = 1
    /\ events = [j \in JobIds |-> {}]
    /\ last_op = <<>>
    /\ returned = <<>>
    /\ call = NoPass

(* embed_job_chunks, lines 154-168: the chunks of the job are read and the *)
(* pass waits for their embeddings; without chunks it returns 0            *)
EmbedStart(job_id) ==
    /\ call.pos # "generating"
    /\ LET docs == EmbeddingDocuments(chunksDb, job_id)
       IN call' = [op |-> "embed_job_chunks",
                   pos |-> IF docs = <<>> THEN "done" ELSE "generating",
                   job_id |-> job_id, docs |-> docs, raised |-> FALSE]
    /\ UNCHANGED <<jobs, chunksDb, embeddings, upserted, last_op>>

(* embed_job_chunks, lines 169-198: generate_embeddings has returned or    *)
(* raised; the documents built from the chunks read before are upserted    *)
EmbedFinish(eo) ==
    /\ call.pos = "generating"
    /\ embeddings' = IF eo.kind = "embed_error" THEN embeddings
                     ELSE bulk_write(embeddings, call.docs, eo.applied, 1)
    /\ upserted' = RecordUpserts(upserted, call.docs, eo.applied)
    /\ call' = [call EXCEPT !.pos = "done",
                            !.raised = eo.kind \in {"embed_error", "error"}]
    /\ UNCHANGED <<jobs, chunksDb, last_op>>

(* delete_job, lines 436-519: a failed deletion of the embeddings or of    *)
(* the chunks is logged and passed over; only a failed deletion of the job *)
(* record answers 500                                                      *)
delete_job(js, cdb, db, valid, job_id, emb_ok, chunks_ok, job_ok) ==
    LET db2 == IF emb_ok THEN SelectSeq(db, LAMBDA d : d.job_id # job_id) ELSE db
        cdb2 == IF chunks_ok THEN { c \in cdb : c.job_id # job_id } ELSE cdb
    IN CASE ~valid -> [http |-> 400, jobs |-> js, chunksDb |-> cdb, embeddings |-> db]
         [] valid /\ job_id \notin DOMAIN js ->
               [http |-> 404, jobs |-> js, chunksDb |-> cdb, embeddings |-> db]
         [] valid /\ job_id \in DOMAIN js /\ ~job_ok ->
               [http |-> 500, jobs |-> js, chunksDb |-> cdb2, embeddings |-> db2]
         [] OTHER ->
               [http |-> 200, jobs |-> [k \in DOMAIN js \ {job_id} |-> js[k]],
                chunksDb |-> cdb2, embeddings |-> db2]

(* DELETE /jobs/{job_id} *)
DeleteJob(valid, job_id, emb_ok, chunks_ok, job_ok) ==
    LET r == delete_job(jobs, chunksDb, embeddings, valid, job_id, emb_ok, chunks_ok, job_ok)
    IN /\ jobs' = r.jobs
       /\ chunksDb' = r.chunksDb
       /\ embeddings' = r.embeddings
       /\ last_op' = [op |-> "delete_job", job_id |-> job_id, http |-> r.http,
                      emb_ok |-> emb_ok, chunks_ok |-> chunks_ok]
       /\ UNCHANGED <<upserted, call>>

DeleteNext ==
    \/ \E job_id \in JobIds : EmbedStart(job_id)
        /\ UNCHANGED <<chunkVars, callVars, pc, loc, now, events>>
    \/ \E eo \in EmbedOutcomes(Len(call.docs)) : EmbedFinish(eo)
        /\ UNCHANGED <<chunkVars, callVars, pc, loc, now, events>>
    \/ \E valid \in BOOLEAN : \E job_id \in JobIds : \E emb_ok \in BOOLEAN :
        \E chunks_ok \in BOOLEAN : \E job_ok \in BOOLEAN :
            DeleteJob(valid, job_id, emb_ok, chunks_ok, job_ok)
                /\ UNCHANGED <<chunkVars, callVars, pc, loc, now, events>>

SpecDelete == DeleteInit /\ [][DeleteNext]_vars

(***************************************************************************)
(* TextChunker._find_logical_break on its own: the inputs are every short  *)
(* file over the line vocabulary, and long files of plain lines with one   *)
(* line that can make a soft boundary (blank, closing brace, "def f"),     *)
(* long enough for a provisional range of MaxSpan lines.                   *)
(***************************************************************************)
PlainLine == <<"x", " ", "=", " ", "1", " ", "+", " ", "2">>

BoundaryLines == { <<>>, <<"}">>, <<"d", "e", "f", " ", "f">> }

LongFile(n, p, special) == [k \in 1..n |-> IF k = p THEN special ELSE PlainLine]

BreakInputs ==
    UNION { [1..n -> LineVocab] : n \in 2..MaxLines }
    \cup { LongFile(n, p, special) :
              n \in { MaxSpan, MaxSpan + 1 }, p \in 1..(MaxSpan + 1),
              special \in BoundaryLines }

BreakInit ==
    /\ content = <<>>
    /\ max_tokens = MAX_CHUNK_TOKENS
    /\ overlap_lines = CHUNK_OVERLAP_LINES
    /\ cpc = "idle"
    /\ lines \in BreakInputs
    /\ current_start = 0
    /\ chunks = <<>>
    /\ jobs = <<>>
    /\ chunksDb = {}
    /\ pc = [j \in JobIds |-> "idle"]
    /\ loc = [j \in JobIds |-> NewLocals]
    /\ now = 1
    /\ events = [j \in JobIds |-> {}]
    /\ last_op = <<>>
    /\ returned = <<>>
    /\ embeddings = <<>>
    /\ upserted = <<>>
    /\ call = NoCall

(* _find_chunk_end calls it when current_end > start + 1 *)
FindLogicalBreak(start, end) ==
    /\ call = NoCall
    /\ start + 1 < end
    /\ end <= Len(lines)
    /\ call' = [op |-> "_find_logical_break", start |-> start, end |-> end,
                result |-> _find_logical_break(lines, start, end)]

BreakNext ==
    \E start \in 0..1 : \E back \in 0..1 :
        FindLogicalBreak(start, Len(lines) - back)
            /\ UNCHANGED <<chunkVars, pipeVars, callVars, embeddings, upserted>>

SpecBreak == BreakInit /\ [][BreakNext]_vars

(***************************************************************************)
(* Properties of the ingestion pipeline (Spec)                             *)
(***************************************************************************)
PhaseSuccessor ==
    { <<PENDING, CLONING>>, <<CLONING, SCANNING>>, <<SCANNING, PARSING>>,
      <<PARSING, CHUNKING>>, <<CHUNKING, STORING>>, <<STORING, COMPLETED>> }

(* C1: the persisted status of a job changes only one step forward along   *)
(* PENDING -> CLONING -> SCANNING -> PARSING -> CHUNKING -> STORING ->     *)
(* COMPLETED, or from a non-terminal status to FAILED                      *)
C1_PhaseOrder ==
    [][\A j \in DOMAIN jobs \cap DOMAIN jobs' :
          \/ jobs'[j].status = jobs[j].status
          \/ <<jobs[j].status, jobs'[j].status>> \in PhaseSuccessor
          \/ jobs[j].status \in InProgressStatus /\ jobs'[j].status = FAILED]_vars

(* a job that walked the whole chain, every phase stamped in order *)
C1_Witness ==
    \E j \in DOMAIN jobs :
        /\ jobs[j].status = COMPLETED
        /\ LET ts == jobs[j].timestamps
           IN /\ 0 < ts["created_at"]
              /\ ts["created_at"] < ts["cloning_started_at"]
              /\ ts["cloning_started_at"] < ts["scanning_started_at"]
              /\ ts["scanning_started_at"] < ts["parsing_started_at"]
              /\ ts["parsing_started_at"] < ts["chunking_started_at"]
              /\ ts["chunking_started_at"] < ts["storing_started_at"]
              /\ ts["storing_started_at"] < ts["completed_at"]

(* C2: every job whose pipeline task has ended is COMPLETED or FAILED,     *)
(* whichever collaborator failed (the finite form of "every job            *)
(* eventually reaches COMPLETED or FAILED")                                *)
C2_EveryJobEnds ==
    \A j \in DOMAIN jobs :
        pc[j] \in {"done", "crashed"} => jobs[j].status \in TerminalStatus

ChunksOfKeptFiles(j) ==
    UNION { SeqToSet(FileChunks(j, loc[j].files[i])) :
              i \in { k \in 1..Len(loc[j].files) : loc[j].files[k] \notin loc[j].skipped } }

(* C4: when the only failures are parse or chunk errors of single files,   *)
(* the job ends COMPLETED and the chunks of every other file are stored    *)
C4_FileErrorsNotFatal ==
    \A j \in DOMAIN jobs :
        (pc[j] = "done" /\ events[j] \subseteq {"parse", "chunk"}) =>
            /\ jobs[j].status = COMPLETED
            /\ ChunksOfKeptFiles(j) \subseteq chunksDb
            /\ Len(loc[j].files) > 0

(* a completed job of two or more files, one skipped, the others stored *)
C4_Witness ==
    \E j \in DOMAIN jobs :
        /\ pc[j] = "done"
        /\ jobs[j].status = COMPLETED
        /\ events[j] # {}
        /\ events[j] \subseteq {"parse", "chunk"}
        /\ loc[j].skipped # {}
        /\ ChunksOfKeptFiles(j) # {}
        /\ ChunksOfKeptFiles(j) \subseteq chunksDb

(* C5 as claimed: a job is FAILED only if the clone failed or the catalog  *)
(* was empty                                                               *)
C5_OnlyCloneOrEmpty ==
    \A j \in DOMAIN jobs :
        jobs[j].status = FAILED => events[j] \cap {"clone", "no_files"} # {}

(* C5 amended: a job is FAILED only if the clone failed, the catalog was   *)
(* empty, or an unexpected exception left a pipeline step (the file scan,  *)
(* the chunk insert with an error other than BulkWriteError, a job-record  *)
(* write); per-file errors and a partial bulk insert are never fatal       *)
C5_FatalCauses ==
    \A j \in DOMAIN jobs :
        /\ jobs[j].status = FAILED =>
               events[j] \cap {"clone", "no_files", "scan_raise", "store_raise", "db_write"} # {}
        /\ (pc[j] = "done" /\ events[j] \subseteq {"parse", "chunk", "bulk_partial"}) =>
               jobs[j].status = COMPLETED

(* a job failed by an error of the chunk insert alone, and a job completed *)
(* after a partial bulk insert                                             *)
C5_Witness ==
    \E j \in DOMAIN jobs :
        /\ pc[j] = "done"
        /\ \/ jobs[j].status = FAILED /\ events[j] = {"store_raise"}
           \/ jobs[j].status = COMPLETED /\ events[j] = {"bulk_partial"}

(***************************************************************************)
(* Properties of the JobRepository API (SpecRepo)                          *)
(***************************************************************************)
(* C6: once a job is COMPLETED or FAILED no call but delete_job changes    *)
(* its record                                                              *)
C6_TerminalImmutable ==
    [][\A j \in DOMAIN jobs :
          jobs[j].status \in TerminalStatus =>
              (j \notin DOMAIN jobs' \/ jobs'[j] = jobs[j])]_vars

(* C7: update_job_status called a second time with the same arguments      *)
(* leaves the job record as the first call left it                         *)
C7_Idempotent ==
    [][(/\ last_op # <<>>
        /\ last_op[1] = "update_job_status"
        /\ last_op' = last_op
        /\ now' # now) => jobs' = jobs]_vars
(***************************************************************************)
(* Properties of TextChunker.chunk_file (SpecChunk)                        *)
(***************************************************************************)
(* C8: every iteration of the chunking loop strictly advances the line     *)
(* cursor and never moves it past the last line, so the loop ends after    *)
(* at most total_lines iterations, whatever the budget and the overlap     *)
C8_CursorAdvances ==
    [][cpc = "loop" =>
          /\ current_start' > current_start
          /\ current_start' <= Len(lines)
          /\ Len(chunks') = Len(chunks) + 1
          /\ (cpc' = "done") = (current_start' >= Len(lines))]_vars

(* a finished split in which one line alone exceeded the budget *)
C8_Witness ==
    /\ cpc = "done"
    /\ Len(chunks) >= 3
    /\ \E i \in 1..Len(chunks) :
          /\ chunks[i].start_line = chunks[i].end_line
          /\ chunks[i].token_count > max_tokens

(* C9 as claimed: a file with non-empty text and an estimate <= B gives    *)
(* exactly one chunk, lines 1..number of lines, content the whole text     *)
C9_SingleChunk ==
    (cpc = "done" /\ content # <<>> /\ count_tokens_approximate(content) <= max_tokens) =>
        /\ Len(chunks) = 1
        /\ chunks[1].start_line = 1
        /\ chunks[1].end_line = total_lines_of(content)
        /\ chunks[1].content = content

(* C9 amended: a file whose text holds a non-whitespace character and      *)
(* whose estimate is <= B gives exactly one chunk, lines 1..number of      *)
(* lines, content the whole text                                           *)
C9_SingleChunkNonBlank ==
    (/\ cpc = "done"
     /\ \E i \in 1..Len(content) : ~IsSpace(content[i])
     /\ count_tokens_approximate(content) <= max_tokens) =>
        /\ Len(chunks) = 1
        /\ chunks[1].start_line = 1
        /\ chunks[1].end_line = total_lines_of(content)
        /\ chunks[1].content = content

(* a several-line file returned whole under a small configured budget *)
C9_Witness ==
    /\ cpc = "done"
    /\ max_tokens <= MaxTokensArg
    /\ total_lines_of(content) >= 3
    /\ count_tokens_approximate(content) = max_tokens
    /\ Len(chunks) = 1
    /\ chunks[1].end_line = total_lines_of(content)

(* C10: after a chunk ending at line `end` the cursor is end - overlap,    *)
(* and only when that would not advance the cursor is it moved forward     *)
C10_OverlapApplied ==
    [][(cpc = "loop" /\ cpc' = "loop") =>
          LET end == chunks'[Len(chunks')].end_line
          IN IF end - overlap_lines > current_start
             THEN current_start' = end - overlap_lines
             ELSE current_start' > current_start]_vars

(* the number of lines chunks a and b (b after a) have in common *)
SharedLines(a, b) == Max(0, a.end_line - b.start_line + 1)

(* C11: the chunks of a file, in the order returned, are in start_line     *)
(* order and cover it without gaps: the first starts at line 1, the last   *)
(* ends at the last line, each next one starts no later than the line      *)
(* after the previous end_line, and two consecutive chunks share at most   *)
(* overlap_lines lines                                                     *)
C11_CoversFile ==
    (cpc = "done" /\ chunks # <<>>) =>
        /\ chunks[1].start_line = 1
        /\ chunks[Len(chunks)].end_line = total_lines_of(content)
        /\ \A i \in 1..(Len(chunks) - 1) :
              /\ chunks[i].start_line < chunks[i + 1].start_line
              /\ chunks[i + 1].start_line <= chunks[i].end_line + 1
              /\ SharedLines(chunks[i], chunks[i + 1]) <= overlap_lines

(* a file split into three or more chunks, one of them of several lines *)
C11_Witness ==
    /\ cpc = "done"
    /\ Len(chunks) >= 3
    /\ \E i \in 1..Len(chunks) : chunks[i].end_line > chunks[i].start_line
    /\ chunks[Len(chunks)].end_line = MaxLines

(* C12: in a file whose estimate exceeds the budget every chunk has        *)
(* token_count <= max_tokens, token_count being the estimate of the        *)
(* chunk's final content, except a chunk of one single line that alone     *)
(* exceeds the budget                                                      *)
C12_WithinBudget ==
    (cpc = "done" /\ count_tokens_approximate(content) > max_tokens) =>
        \A i \in 1..Len(chunks) :
            /\ chunks[i].token_count = count_tokens_approximate(chunks[i].content)
            /\ \/ chunks[i].token_count <= max_tokens
               \/ /\ chunks[i].start_line = chunks[i].end_line
                  /\ count_tokens_approximate(lines[chunks[i].start_line]) > max_tokens

(* C13: two chunk_file calls on the same chunker with the same text return *)
(* the same ordered list of chunks (start_line, end_line, content and      *)
(* token_count at every position), whatever was chunked in between         *)
C13_Deterministic ==
    /\ \A i \in 1..Len(returned) : \A k \in 1..Len(returned) :
          returned[i].content = returned[k].content =>
              returned[i].chunks = returned[k].chunks
    /\ cpc = "done" =>
          \A i \in 1..Len(returned) :
              returned[i].content = content => returned[i].chunks = chunks

(* a text split into chunks, another file chunked, and the first text      *)
(* split again                                                             *)
C13_Witness ==
    /\ cpc = "done"
    /\ Len(returned) = 2
    /\ returned[1].content = content
    /\ returned[2].content # content
    /\ Len(returned[2].chunks) >= 2
    /\ Len(chunks) >= 2

(***************************************************************************)
(* Properties of VectorStore.similarity_search (SpecVec)                   *)
(***************************************************************************)
(* the threshold the last similarity_search call searched with *)
UsedThreshold == OrDefault(call.score_threshold, SIMILARITY_THRESHOLD)

(* C14: for the stored records of one job, a query vector, k and a         *)
(* threshold, every answer of the accelerated path equals the answer of    *)
(* the brute-force fallback, which is in descending score order with ties  *)
(* in ascending chunk_id order                                             *)
C14_PathsAgree ==
    call.op = "similarity_search" =>
        LET fb == _fallback_similarity_search(embeddings, call.query, call.job_id,
                                              call.top_k, UsedThreshold)
        IN /\ \A c \in VectorSearchStage(embeddings, call.query, call.job_id, call.top_k) :
                 _atlas_vector_search(c, UsedThreshold) = fb
           /\ \A i \in 1..Len(fb) : \A k \in 1..Len(fb) :
                 i < k => \/ fb[i].score > fb[k].score
                          \/ fb[i].score = fb[k].score /\ fb[i].chunk_id < fb[k].chunk_id

(* C15: a similarity_search that returns gives at most top_k results, all  *)
(* with score >= the score_threshold passed, in non-increasing score       *)
(* order, and leaves out a record of the job with score >= that threshold  *)
(* only when top_k results with scores at least as high are returned       *)
C15_TopKAboveThreshold ==
    (call.op = "similarity_search" /\ ~call.raised) =>
        LET r == call.results IN
        /\ Len(r) <= call.top_k
        /\ \A i \in 1..Len(r) : r[i].score >= call.score_threshold
        /\ \A i \in 1..Len(r) : \A k \in 1..Len(r) : i < k => r[i].score >= r[k].score
        /\ Norm(call.query) > 0 =>
              \A c \in SearchCandidates(embeddings, call.query, call.job_id) :
                  (c.score >= call.score_threshold /\ \A i \in 1..Len(r) : r[i] # c) =>
                      /\ Len(r) = call.top_k
                      /\ \A i \in 1..Len(r) : r[i].score >= c.score

(* C16 as claimed: the answer comes from the fallback exactly when the     *)
(* accelerated path did not succeed, and no failure of the accelerated     *)
(* path reaches the caller                                                 *)
C16_FallbackOnlyOnFailure ==
    call.op = "similarity_search" =>
        /\ (call.path = "fallback") = (call.atlas # "ok")
        /\ ~call.raised

(* C16 amended: the answer comes from the fallback exactly when the        *)
(* accelerated path raised OperationFailure or returned no result at or    *)
(* above the threshold; an OperationFailure never reaches the caller, any  *)
(* other exception of the accelerated path does                            *)
C16_FallbackRule ==
    call.op = "similarity_search" =>
        /\ (call.path = "fallback") =
              \/ call.atlas = "OperationFailure"
              \/ /\ call.atlas = "ok"
                 /\ \A c \in SearchCandidates(embeddings, call.query, call.job_id) :
                        c.score < UsedThreshold
        /\ call.raised = (call.atlas = "error")
        /\ call.raised => call.results = <<>>

(* an OperationFailure of the accelerated path answered by the fallback    *)
(* with two results                                                        *)
C16_Witness ==
    /\ call.op = "similarity_search"
    /\ call.atlas = "OperationFailure"
    /\ call.path = "fallback"
    /\ ~call.raised
    /\ Len(call.results) = 2

(* C17: every result of a search under one job refers to a stored          *)
(* embedding document of that job, on either path                          *)
C17_CrossJobIsolation ==
    call.op = "similarity_search" =>
        \A i \in 1..Len(call.results) :
            /\ call.results[i].job_id = call.job_id
            /\ \E k \in 1..Len(embeddings) :
                  /\ embeddings[k].chunk_id = call.results[i].chunk_id
                  /\ embeddings[k].job_id = call.job_id

(* a fallback search under one job that returns a result while a document  *)
(* of the other job, stored earlier, scores at least as high               *)
C17_Witness ==
    /\ call.op = "similarity_search"
    /\ call.path = "fallback"
    /\ Len(call.results) >= 1
    /\ Len(embeddings) >= 2
    /\ embeddings[1].job_id # call.job_id
    /\ CosineScore(call.query, embeddings[1].embedding) >= call.results[1].score

(***************************************************************************)
(* Properties of VectorStore.upsert_embeddings (SpecUpsert)                *)
(***************************************************************************)
(* C18: the collection holds at most one document per chunk_id, and it is  *)
(* the document of the last upsert applied to that chunk_id                *)
C18_LastWriteWins ==
    /\ \A i \in 1..Len(embeddings) : \A k \in 1..Len(embeddings) :
          i # k => embeddings[i].chunk_id # embeddings[k].chunk_id
    /\ \A i \in 1..Len(embeddings) :
          /\ embeddings[i].chunk_id \in DOMAIN upserted
          /\ embeddings[i] = upserted[embeddings[i].chunk_id]
    /\ \A u \in DOMAIN upserted : \E i \in 1..Len(embeddings) : embeddings[i] = upserted[u]

(* an upsert that overwrote the stored documents of two chunk ids *)
C18_Witness ==
    /\ call.op = "upsert_embeddings"
    /\ call.outcome = "ok"
    /\ call.modified = 2
    /\ Len(embeddings) = MaxUnits

(* C19 as claimed: whenever only part of the batch was written,            *)
(* upsert_embeddings does not raise and returns the number of documents    *)
(* applied, which is below the batch size                                  *)
C19_PartialNeverRaises ==
    (call.op = "upsert_embeddings" /\ call.applied < call.batch) =>
        /\ ~call.raised
        /\ call.returned = call.applied
        /\ call.returned < call.batch

(* C19 amended: when bulk_write raises BulkWriteError after writing part   *)
(* of the batch, upsert_embeddings does not raise and returns the number   *)
(* of documents applied, which is below the batch size, and the applied    *)
(* documents stay stored; when bulk_write raises anything else,            *)
(* upsert_embeddings raises, whatever part of the batch was written        *)
C19_BulkWriteErrorCount ==
    call.op = "upsert_embeddings" =>
        /\ call.outcome = "BulkWriteError" =>
              /\ ~call.raised
              /\ call.returned = call.applied
              /\ call.returned < call.batch
              /\ \A u \in DOMAIN upserted :
                    \E i \in 1..Len(embeddings) : embeddings[i] = upserted[u]
        /\ call.outcome = "error" => call.raised
        /\ call.outcome = "ok" => (~call.raised /\ call.returned = call.batch)

(* a BulkWriteError after one of two documents was written, one returned *)
C19_Witness ==
    /\ call.op = "upsert_embeddings"
    /\ call.outcome = "BulkWriteError"
    /\ call.batch = 2
    /\ call.applied = 1
    /\ call.returned = 1
    /\ ~call.raised

(***************************************************************************)
(* Properties of retrieval (SpecRetrieve)                                  *)
(***************************************************************************)
(* C20 as claimed: Retriever.retrieve rejects every job whose status is    *)
(* not COMPLETED: it raises, returns no results and triggers no embedding  *)
(* pass                                                                    *)
C20_RetrieveRejectsNotCompleted ==
    (call.op = "retrieve" /\ call.status \in JobStatus \ {COMPLETED}) =>
        /\ call.raised
        /\ call.results = <<>>
        /\ ~call.embedded

(* C20 amended: the POST /retrieve route rejects every job whose status is *)
(* not COMPLETED with status 400 before it builds a Retriever: no results, *)
(* no embedding pass, the embeddings collection left as it was;            *)
(* Retriever.retrieve itself raises only for a job that does not exist     *)
C20_RouteRejectsNotCompleted ==
    /\ [](call.op = "retrieve_chunks" /\ call.status \in JobStatus \ {COMPLETED} =>
            /\ call.http = 400
            /\ call.raised
            /\ ~call.called
            /\ call.results = <<>>
            /\ ~call.embedded)
    /\ [](call.op = "retrieve" /\ call.status = "" =>
            call.raised /\ call.results = <<>> /\ ~call.embedded)
    /\ [][(call'.op = "retrieve_chunks" /\ call'.status \in JobStatus \ {COMPLETED}) =>
            embeddings' = embeddings]_vars

(* the route has rejected a query on a FAILED job whose stored chunks have *)
(* no embeddings yet: a Retriever would have embedded and searched them    *)
C20_Witness ==
    /\ call.op = "retrieve_chunks"
    /\ call.valid
    /\ call.status = FAILED
    /\ call.http = 400
    /\ get_chunks_by_job(chunksDb, call.job_id) # <<>>
    /\ ~has_embeddings(embeddings, call.job_id)

(* the last call reached the similarity search: the job existed, the       *)
(* embedding pass and the query embedding did not raise                    *)
SearchIssued ==
    /\ call.op \in {"retrieve", "retrieve_chunks"}
    /\ call.called
    /\ call.error \in {"", "Similarity search failed"}

(* C21: when retrieve is called for a COMPLETED job with zero              *)
(* EmbeddingRecords, at the moment the search is issued every Unit of the  *)
(* job has exactly one EmbeddingRecord                                     *)
C21_FullPassBeforeSearch ==
    (SearchIssued /\ call.status = COMPLETED /\ call.embedded) =>
        \A c \in { x \in chunksDb : x.job_id = call.job_id } :
            Cardinality({ i \in 1..Len(embeddings) :
                            embeddings[i].chunk_id = c.chunk_id }) = 1

(***************************************************************************)
(* Properties of the confidence score (SpecConf)                           *)
(***************************************************************************)
(* C22 as claimed: of two non-empty result lists with the same number of   *)
(* results, the list with the higher mean score gets a strictly higher     *)
(* confidence                                                              *)
C22_StrictlyMonotone ==
    (call.op = "_calculate_confidence" /\ ExactSum(call.a) < ExactSum(call.b)) =>
        call.conf_a < call.conf_b

(* C22 amended: of two non-empty result lists with the same number of      *)
(* results, the list with the higher average score as the code computes it *)
(* (sum(scores) / len(scores) in floating point) gets a confidence that is *)
(* not lower, and the confidence lies in [0, 1]                            *)
C22_Monotone ==
    call.op = "_calculate_confidence" =>
        /\ (call.avg_a <= call.avg_b => call.conf_a <= call.conf_b)
        /\ call.conf_a \in 0..One

(* two lists of two results each, the second with the higher mean and the  *)
(* higher computed average, that round to the same confidence              *)
C22_Witness ==
    /\ call.op = "_calculate_confidence"
    /\ Len(call.a) = 2
    /\ ExactSum(call.a) < ExactSum(call.b)
    /\ call.avg_a < call.avg_b
    /\ call.conf_a = call.conf_b

(***************************************************************************)
(* Properties of ingest requests (SpecIngest)                              *)
(***************************************************************************)
(* C23: at any time at most one job per repository URL is in a             *)
(* non-terminal status, however many other jobs exist                      *)
C23_OneActiveJobPerUrl ==
    \A j \in DOMAIN jobs : \A k \in DOMAIN jobs :
        (/\ j # k
         /\ jobs[j].repo_url = jobs[k].repo_url
         /\ jobs[j].status \in InProgressStatus) => jobs[k].status \notin InProgressStatus

(***************************************************************************)
(* Properties of deletion (SpecDelete)                                     *)
(***************************************************************************)
(* C24: whenever delete_job returns its success response, no Job record,   *)
(* no Unit and no EmbeddingRecord with that job id remains stored, also    *)
(* when one of the intermediate deletions fails                            *)
C24_DeletedWithJob ==
    [][\A j \in DOMAIN jobs \ DOMAIN jobs' :
          (last_op'.op = "delete_job" /\ last_op'.job_id = j /\ last_op'.http = 200) =>
              /\ \A c \in chunksDb' : c.job_id # j
              /\ \A i \in 1..Len(embeddings') : embeddings'[i].job_id # j]_vars

(* C29: if delete_job runs while an embedding pass for the same job is in  *)
(* flight, then once both have finished (every deletion of delete_job      *)
(* having succeeded) no Unit and no EmbeddingRecord with that job id       *)
(* exists and the job record has not been re-created                       *)
C29_DeleteSafeUnderInterleaving ==
    (/\ "op" \in DOMAIN last_op
     /\ last_op.http = 200 /\ last_op.emb_ok /\ last_op.chunks_ok
     /\ call.pos # "generating") =>
        /\ last_op.job_id \notin DOMAIN jobs
        /\ \A c \in chunksDb : c.job_id # last_op.job_id
        /\ \A i \in 1..Len(embeddings) : embeddings[i].job_id # last_op.job_id

(***************************************************************************)
(* Properties of the units of a job (Spec)                                 *)
(***************************************************************************)
(* C25: within one job no two Units have the same (file path, start_line): *)
(* the Units of a file follow each other with strictly increasing          *)
(* start_line and start_line <= end_line, each catalogued file is chunked  *)
(* once, and the stored Units of a job differ in (file path, start_line)   *)
C25_NoDuplicateUnits ==
    /\ \A j \in JobIds :
          LET cs == loc[j].all_chunks
          IN /\ \A i \in 1..Len(cs) : cs[i].start_line <= cs[i].end_line
             /\ \A i \in 1..Len(cs) : \A k \in 1..Len(cs) :
                   (i < k /\ cs[i].file_path = cs[k].file_path) =>
                       cs[i].start_line < cs[k].start_line
    /\ \A c \in chunksDb : \A d \in chunksDb :
          (c.job_id = d.job_id /\ c.file_path = d.file_path
           /\ c.start_line = d.start_line) => c = d

(* a job has stored two Units of one file *)
C25_Witness ==
    \E c \in chunksDb : \E d \in chunksDb :
        /\ c.job_id = d.job_id /\ c.file_path = d.file_path
        /\ c.start_line < d.start_line
        /\ \E j \in DOMAIN jobs : j = c.job_id /\ jobs[j].status = COMPLETED


(***************************************************************************)
(* C26: for a provisional range [start, end) of more than one line, the    *)
(* end returned by _find_logical_break satisfies                           *)
(* start + floor(0.7 x (end - start)) < result <= end.                     *)
(***************************************************************************)
BreakCalled == call.op = "_find_logical_break"

C26_MoreThanSeventyPercent ==
    BreakCalled =>
        /\ call.start + (7 * (call.end - call.start)) \div 10 < call.result
        /\ call.result <= call.end

(***************************************************************************)
(* C26 as the code has it: for a provisional range [start, end) of more    *)
(* than one line the returned end keeps at least 70% of the range and at   *)
(* least one line: 0.7 x (end - start) <= result - start, start < result   *)
(* and result <= end.                                                      *)
(***************************************************************************)
C26_AtLeastSeventyPercent ==
    BreakCalled =>
        /\ 7 * (call.end - call.start) <= 10 * (call.result - call.start)
        /\ call.start < call.result
        /\ call.result <= call.end

(* a range of MaxSpan lines shrunk to exactly 70% of it *)
C26_Witness ==
    /\ BreakCalled
    /\ call.end - call.start >= 10
    /\ call.result < call.end
    /\ 10 * (call.result - call.start) = 7 * (call.end - call.start)

(***************************************************************************)
(* C30: _find_logical_break returns the soft boundary nearest to the       *)
(* provisional end: the first qualifying line met by the backward scan of  *)
(* the window fixes the result, no qualifying line further from the end    *)
(* overrides it, and with no qualifying line the end is returned as it is. *)
(***************************************************************************)
Qualifies(ls, i) ==
    \/ Strip(ls[i + 1]) = <<>>
    \/ Strip(ls[i + 1]) \in break_patterns
    \/ /\ i + 1 < Len(ls)
       /\ \E p \in start_patterns : StartsWith(LStrip(ls[i + 2]), p)

NearestBreak(ls, start, end) ==
    LET window == { i \in MinEnd(start, end)..(end - 1) : Qualifies(ls, i) }
    IN IF window = {} THEN end
       ELSE (CHOOSE i \in window : \A j \in window : j <= i) + 1

C30_NearestBoundary ==
    BreakCalled => call.result = NearestBreak(lines, call.start, call.end)


(***************************************************************************)
(* C27: whenever the persisted status of a job is COMPLETED, its final     *)
(* statistics and all of its Units are already persisted: the chunks and   *)
(* the statistics are written before COMPLETED is, so a reader that sees   *)
(* COMPLETED never sees missing statistics or a partly stored unit set.    *)
(***************************************************************************)
C27_CompletedMeansStored ==
    \A j \in DOMAIN jobs :
        jobs[j].status = COMPLETED =>
            /\ jobs[j].stats = loc[j].stats
            /\ SeqToSet(loc[j].all_chunks) \subseteq chunksDb

(***************************************************************************)
(* C28: for every COMPLETED job stats.total_chunks is the number of Units  *)
(* persisted for that job, also when the bulk insert only partly succeeds. *)
(***************************************************************************)
C28_TotalChunksIsStoredCount ==
    \A j \in DOMAIN jobs :
        jobs[j].status = COMPLETED =>
            jobs[j].stats.total_chunks
                = Cardinality({ c \in chunksDb : c.job_id = j })

====
